---- MODULE Spec2Model ----
(***************************************************************************)
(* Provider orchestration of WorkflowGenius: the AIEngine of               *)
(* src/background/ai-engine.js (fallback over providers, sliding-log       *)
(* RateLimiter, response cache, AIMetrics), the token bucket of            *)
(* SecurityManager.createRateLimiter and APIClient.generateWorkflow; the   *)
(* retry loops executeWithRetry, retryStep and makeRequest on their own;   *)
(* the service worker's EXECUTE_WORKFLOW handler with executeWorkflow,     *)
(* executeLoop and evaluateCondition; its message listener with            *)
(* initialize and processMessageQueue; its GENERATE_WORKFLOW handler with  *)
(* the WorkflowGenerator; and APIClient.generateWithGroq called directly.  *)
(*                                                                         *)
(* Time is counted in ticks.  The source's durations and capacities        *)
(* (60000 ms windows, 100/50/200 requests, 100 cache entries, 1 h expiry)  *)
(* are scaled down to the small numbers below; every guard keeps the       *)
(* comparison operator of the source.                                      *)
(***************************************************************************)
EXTENDS Integers, Sequences, FiniteSets, TLC

\* ---------------------------------------------------------------- bounds
\* Number of generateWorkflow calls a behaviour makes.
MaxCalls == 2
\* Number of AIEngine.generateWorkflow calls that may be pending at the same time.
MaxPending == 2
\* Last tick of the clock.
MaxTime == 1
\* config.rateLimits.*.window (60000 ms in the source), in ticks.
WindowMs == 1
\* config.rateLimits.groq.requests (100 in the source), scaled.
LimitGroq == 2
\* config.rateLimits.huggingface.requests (50 in the source), scaled.
LimitHuggingface == 1
\* config.rateLimits.openrouter.requests (200 in the source), scaled.
LimitOpenrouter == 2
\* config.cacheExpiry (3600000 ms in the source), in ticks.
CacheExpiry == 1
\* The cache size limit of setCache (100 in the source), scaled.
CacheLimit == 2
\* The latency ring of AIMetrics.recordGeneration (100 in the source), scaled.
LatencyLimit == 2

\* createRateLimiter(maxRequests, windowMs): the largest capacity and window tried.
MaxTokens == 2
MaxWindow == 2
\* Last tick of the clock, and number of admission requests, of a token bucket run.
MaxBucketTime == 3
MaxBucketRequests == 4
\* APIClient.setupRateLimiters: 100 per 60000 ms, 100 per 3600000 ms and 20 per
\* 60000 ms in the source, scaled.
ClientLimitGroq == 2
ClientLimitHuggingface == 2
ClientLimitOpenrouter == 1
ClientWindowMinute == 2
ClientWindowHour == 3
\* DataStorageManager.cacheExpiry (3600000 ms in the source), in ticks.
StorageExpiry == 1
\* Number of getFromCache / setCache operations, and last tick, of a cache run.
MaxCacheOps == 4
MaxCacheTime == 2
\* The largest maxRetries executeWithRetry is called with (config.maxRetries is 3).
MaxAttempts == 3
\* The largest number of steps of a stored workflow.
MaxSteps == 2
\* Number of generateWithGroq calls a behaviour makes.
MaxGroqCalls == 3
\* Number of messages the listener receives.
MaxMessages == 3
\* The largest number of items, and of inner steps, of a loop step.
MaxItems == 2
MaxInner == 2
\* Number of EXECUTE_WORKFLOW messages handled at the same time.
MaxExecutions == 2
\* Number of onInstalled and onStartup events the service worker sees.
MaxEvents == 2
\* Number of getSecure and of setSecure calls, and last tick, of a storage run.
MaxReads == 2
MaxWrites == 2
MaxRaceTime == 3

\* ------------------------------------------------------ program constants
\* config.maxRetries
MaxRetries == 3

\* Object.keys(this.providers), in declaration order.
ProviderNames == <<"groq", "huggingface", "openrouter">>

Providers == {ProviderNames[i] : i \in 1..Len(ProviderNames)}

\* options.preferredProvider as a caller may pass it: absent ("null"), one of
\* the providers, or a name the engine does not know.
PreferredInputs == {"null", "openai"} \cup Providers

\* Prompts as sequences of char codes: "Aa" and "BB", which hashString maps to the same hash.
Prompts == {<<65, 97>>, <<66, 66>>}

VARIABLES
  program,     \* which program runs: the service worker's AIEngine or the services' APIClient
  now,         \* Date.now()
  apiKeys,     \* AIEngine: providers whose apiKey is set (provider.isConfigured())
  cache,       \* AIEngine.cache: a Map, as the sequence of its entries in insertion order
  limiters,    \* AIEngine: RateLimiter.requests of each provider
  requests,    \* AIMetrics.metrics.requests
  cacheHits,   \* AIMetrics.metrics.cacheHits
  latencies,   \* AIMetrics.metrics.latencies
  errors,      \* AIMetrics.metrics.errors
  calls,       \* AIEngine.generateWorkflow calls: position and locals of each
  admitted,    \* history: every timestamp recordRequest pushed, per provider
  outcomes,    \* history: how many invocations of each provider ended in success / failure
  initialized, \* APIClient.initialized
  buckets,     \* APIClient.rateLimiters: tokens and lastRefill of each token bucket
  storedKeys,  \* providers with an api_key_<provider> entry in the data storage
  memoryCache, \* DataStorageManager.memoryCache, the cache_<key> entries
  storage,     \* chrome.storage.local, the wg_cache_<key> entries
  request,     \* the APIClient.generateWorkflow call: position and locals
  limiter,     \* a token bucket made by createRateLimiter
  grants,      \* history: the times at which limiter.canMakeRequest() returned true
  lastOp,      \* history: the last cache operation and what it returned
  written,     \* history: per cache key, the last setCache and whether an eviction followed
  stamps,      \* history: per cache key, the number of the operation that inserted it
  ops,         \* number of cache operations so far
  retry,       \* a retry loop on its own: position, locals and history
  workflow,    \* the stored workflow that EXECUTE_WORKFLOW runs
  executions,  \* the execution contexts of handleExecuteWorkflow, with each handler's position
  activeWorkflows, \* serviceState.activeWorkflows: the ids registered, each with its execution
  stepDelay,   \* workflow.settings.stepDelay of the stored workflow, 0 when it declares none
  service,     \* the message listener: serviceState, the requests received and their answers
  generation,  \* a GENERATE_WORKFLOW request: position, what each stage did, the workflow
  evaluation,  \* an evaluateCondition call: the condition, the context and what came back
  sent,        \* history: per provider, the times of the attempts sent to it that lie in the window of the last one
  errorHandling, \* workflow.errorHandling of the stored workflow: its strategy, "none" when it declares none
  race         \* DataStorageManager calls running side by side, and chrome.storage's pending operations

engineVars == <<apiKeys, cache, limiters, requests, cacheHits, latencies, errors, calls,
                admitted, outcomes, sent>>

clientVars == <<initialized, buckets, storedKeys, memoryCache, storage, request>>

bucketVars == <<limiter, grants>>

cacheOpVars == <<lastOp, written, stamps, ops>>

workerVars == <<retry, workflow, executions, activeWorkflows>>

handlerVars == <<stepDelay, service, generation, evaluation, errorHandling, race>>

vars == <<program, now, engineVars, clientVars, bucketVars, cacheOpVars, workerVars, handlerVars>>

\* ---------------------------------------------------------------- helpers
SeqToSet(s) == {s[i] : i \in 1..Len(s)}

\* s.filter(e => e !== x)
RECURSIVE Without(_, _)
Without(s, x) ==
  IF s = <<>> THEN <<>>
  ELSE (IF Head(s) = x THEN <<>> ELSE <<Head(s)>>) \o Without(Tail(s), x)

\* Position of x in s, 0 when absent.
IndexOf(s, x) == IF x \in SeqToSet(s) THEN CHOOSE i \in 1..Len(s) : s[i] = x /\ \A j \in 1..(i-1) : s[j] # x ELSE 0

NullError == [msg |-> "null", by |-> "none"]

NoResult == [kind |-> "none", data |-> <<>>, error |-> NullError]

\* ------------------------------------------------------------- AIMetrics
MetricKeys == (Providers \cup {"workflow"}) \X {"success", "failure"}

\* AIMetrics.recordGeneration: the count under `${type}:${success ? 'success' : 'failure'}`.
RecordGenerationRequests(reqs, type, success) ==
  LET key == <<type, IF success THEN "success" ELSE "failure">>
  IN [reqs EXCEPT ![key] = @ + 1]

\* AIMetrics.recordGeneration: the latency ring, successes only.
RecordGenerationLatencies(lats, latency, success) ==
  IF success
  THEN LET pushed == Append(lats, latency)
       IN IF Len(pushed) > LatencyLimit THEN Tail(pushed) ELSE pushed
  ELSE lats

\* AIMetrics.getSuccessRate as the fraction <<numerator, denominator>>.
GetSuccessRate(reqs, provider) ==
  LET success == reqs[<<provider, "success">>]
      failure == reqs[<<provider, "failure">>]
      total == success + failure
  IN IF total > 0 THEN <<success, total>> ELSE <<1, 2>>

\* a - b > 0 for fractions
RateGreater(a, b) == a[1] * b[2] > b[1] * a[2]

\* ----------------------------------------------------------- RateLimiter
RateLimitRequests(p) ==
  CASE p = "groq" -> LimitGroq
    [] p = "huggingface" -> LimitHuggingface
    [] p = "openrouter" -> LimitOpenrouter

\* RateLimiter.cleanup
RECURSIVE Cleanup(_, _)
Cleanup(reqs, t) ==
  IF reqs = <<>> THEN <<>>
  ELSE (IF t - Head(reqs) < WindowMs THEN <<Head(reqs)>> ELSE <<>>) \o Cleanup(Tail(reqs), t)

\* canMakeRequest letting one request too many through (<= for <).
CanMakeRequestOffByOne(reqs, t, maxRequests) == Len(Cleanup(reqs, t)) <= maxRequests

\* RateLimiter.canMakeRequest: its answer (it also stores Cleanup(reqs, t))
CanMakeRequest(reqs, t, maxRequests) == Len(Cleanup(reqs, t)) < maxRequests

\* RateLimiter.recordRequest
RecordRequest(reqs, t) == Append(Cleanup(reqs, t), t)

\* ------------------------------------------------------- response cache
\* JSON.stringify(options) for options = {} or {preferredProvider: p}, as char codes.
OptionsStr(preferred) ==
  LET head == <<123,34,112,114,101,102,101,114,114,101,100,80,114,111,118,105,100,101,114,34,58,34>>
      tail == <<34,125>>
  IN CASE preferred = "null" -> <<123,125>>
       [] preferred = "groq" -> head \o <<103,114,111,113>> \o tail
       [] preferred = "huggingface" -> head \o <<104,117,103,103,105,110,103,102,97,99,101>> \o tail
       [] preferred = "openrouter" -> head \o <<111,112,101,110,114,111,117,116,101,114>> \o tail
       [] preferred = "openai" -> head \o <<111,112,101,110,97,105>> \o tail

\* 32-bit words are pairs <<high 16 bits, low 16 bits>>, so that no product
\* leaves the range of the checker's integers.
Add32(a, b) ==
  LET lo == a[2] + b[2]
  IN <<(a[1] + b[1] + (lo \div 65536)) % 65536, lo % 65536>>

\* a * b modulo 2^32
Mul32(a, b) ==
  LET x == a[2] * (b[2] \div 256)   \* weighs 2^8
      y == a[2] * (b[2] % 256)
      lo == (x % 256) * 256 + (y % 65536)
      hi == (x \div 256) + (y \div 65536) + (lo \div 65536)
             + ((a[1] * (b[2] % 256)) % 65536) + (((a[1] * (b[2] \div 256)) % 256) * 256)
             + ((a[2] * (b[1] % 256)) % 65536) + (((a[2] * (b[1] \div 256)) % 256) * 256)
  IN <<hi % 65536, lo % 65536>>

\* The loop of hashString, hash = ((hash << 5) - hash) + char; hash = hash & hash,
\* is the map hash |-> mul * hash + add modulo 2^32 for each char, written
\* <<mul, add>>.  Running `first` and then `then`:
HashCompose(first, then) ==
  <<Mul32(then[1], first[1]), Add32(Mul32(then[1], first[2]), then[2])>>

\* The loop over str[i] alone (nothing past the end of the string), then over
\* 2, 4, ... 64 chars from i on, each as two halves.
Hash1(str, i) == IF i > Len(str) THEN << <<0, 1>>, <<0, 0>> >> ELSE << <<0, 31>>, <<0, str[i]>> >>

Hash2(str, i) == HashCompose(Hash1(str, i), Hash1(str, i + 1))

Hash4(str, i) == HashCompose(Hash2(str, i), Hash2(str, i + 2))

Hash8(str, i) == HashCompose(Hash4(str, i), Hash4(str, i + 4))

Hash16(str, i) == HashCompose(Hash8(str, i), Hash8(str, i + 8))

Hash32(str, i) == HashCompose(Hash16(str, i), Hash16(str, i + 16))

Hash64(str, i) == HashCompose(Hash32(str, i), Hash32(str, i + 32))

\* AIEngine.hashString from hash = 0, for strings of up to 64 chars
\* (toString(36) is one-to-one and left out)
HashString(str) == Hash64(str, 1)[2]

\* AIEngine.getCacheKey
GetCacheKey(type, input, preferred) == <<type, HashString(input \o OptionsStr(preferred))>>

\* getCacheKey('workflow', prompt, options) of every request of the model.
\* (a set of pairs <<request, key>>, which is computed once)
WorkflowKeys == {<<r, GetCacheKey("workflow", r[1], r[2])>> : r \in Prompts \X PreferredInputs}

WorkflowKey(prompt, preferred) == (CHOOSE e \in WorkflowKeys : e[1] = <<prompt, preferred>>)[2]

CacheKeys(c) == {c[i].key : i \in 1..Len(c)}

CacheHas(c, key) == key \in CacheKeys(c)

CacheEntry(c, key) == c[CHOOSE i \in 1..Len(c) : c[i].key = key]

\* Map.delete
RECURSIVE CacheDelete(_, _)
CacheDelete(c, key) ==
  IF c = <<>> THEN <<>>
  ELSE (IF Head(c).key = key THEN <<>> ELSE <<Head(c)>>) \o CacheDelete(Tail(c), key)

\* A Map.set that moves an existing key to the end, as a delete and a set would.
CacheSetMoveToEnd(c, key, entry) == Append(CacheDelete(c, key), entry)

\* Map.set: an existing key keeps its place, a new key goes last.
CacheSet(c, key, entry) ==
  IF CacheHas(c, key)
  THEN [i \in 1..Len(c) |-> IF c[i].key = key THEN entry ELSE c[i]]
  ELSE Append(c, entry)

\* getFromCache still answering when exactly the expiry has passed (<= for <).
CacheFreshInclusive(c, key, t) ==
  CacheHas(c, key) /\ t - CacheEntry(c, key).timestamp <= CacheExpiry

\* AIEngine.getFromCache: whether it returns cached.data
CacheFresh(c, key, t) == CacheHas(c, key) /\ t - CacheEntry(c, key).timestamp < CacheExpiry

\* AIEngine.getFromCache: the cache it leaves
CacheAfterGet(c, key, t) == IF CacheFresh(c, key, t) THEN c ELSE CacheDelete(c, key)

\* setCache without its write.
SetCacheSkipped(c, key, data, t) == c

\* AIEngine.setCache
SetCache(c, key, data, t) ==
  LET stored == CacheSet(c, key, [key |-> key, data |-> data, timestamp |-> t])
  IN IF Len(stored) > CacheLimit THEN CacheDelete(stored, stored[1].key) ELSE stored

\* --------------------------------------------------------- provider order
\* Array.prototype.sort with (a, b) => rate(b) - rate(a): a stable insertion
\* into the sorted prefix, behind every element that does not compare after x.
RECURSIVE InsertByRate(_, _, _)
InsertByRate(sorted, x, reqs) ==
  IF sorted = <<>> THEN <<x>>
  ELSE IF RateGreater(GetSuccessRate(reqs, x), GetSuccessRate(reqs, sorted[1]))
       THEN <<x>> \o sorted
       ELSE <<sorted[1]>> \o InsertByRate(Tail(sorted), x, reqs)

RECURSIVE SortByRate(_, _)
SortByRate(order, reqs) ==
  IF order = <<>> THEN <<>>
  ELSE InsertByRate(SortByRate(SubSeq(order, 1, Len(order) - 1), reqs), order[Len(order)], reqs)

\* getProviderOrder without the move of the preferred provider to the front.
GetProviderOrderUnmoved(preferred, reqs) == SortByRate(ProviderNames, reqs)

\* AIEngine.getProviderOrder
GetProviderOrder(preferred, reqs) ==
  LET order == ProviderNames
  IN IF preferred # "null" /\ preferred \in SeqToSet(order)
     THEN <<preferred>> \o Without(order, preferred)
     ELSE SortByRate(order, reqs)

\* isConfigured answering true without a key.
AlwaysConfigured(p) == TRUE

\* provider.isConfigured()
IsConfigured(p) == p \in apiKeys


\* A catch that keeps the first error instead of the last.
KeepFirstError(lastError, error) == IF lastError = NullError THEN error ELSE lastError

\* executeWithFallback, catch (error): lastError = error
CatchError(lastError, error) == error

\* executeWithFallback: throw lastError || new Error('All AI providers failed')
ThrownError(lastError) ==
  IF lastError # NullError THEN lastError
  ELSE [msg |-> "All AI providers failed", by |-> "none"]

\* ------------------------------------------------------------ the engine
IdleCall ==
  [pc |-> "idle", preferred |-> "null", key |-> <<>>, start |-> 0,
   providers |-> <<>>, idx |-> 0, attempt |-> 0,
   lastError |-> NullError, result |-> NoResult, trace |-> <<>>]

\* A call occupies a slot from its start until the next call reuses the slot.
CallIds == 1..MaxPending

\* An entry of a call's history: what executeWithFallback did with provider p.
Event(p, kind) == [p |-> p, kind |-> kind]

\* Time passes.
Tick ==
  /\ now < MaxTime
  /\ now' = now + 1
  /\ UNCHANGED <<program, engineVars, clientVars, bucketVars, cacheOpVars, workerVars, handlerVars>>

\* AIEngine.setAPIKey: provider p gets a key, or an empty one.
SetAPIKey(p, key) ==
  /\ program = "AIEngine"
  /\ apiKeys' = IF key = "" THEN apiKeys \ {p} ELSE apiKeys \cup {p}
  /\ apiKeys' # apiKeys
  /\ UNCHANGED <<program, now, cache, limiters, requests, cacheHits, latencies, errors,
                 calls, admitted, outcomes, clientVars, bucketVars, cacheOpVars, workerVars, handlerVars,
                 sent>>

Pending(c) == calls[c].pc \notin {"idle", "done"}

\* generateWorkflow calls made so far: every call ends in exactly one of these counts.
CallsMade ==
  cacheHits + requests[<<"workflow", "success">>] + requests[<<"workflow", "failure">>]
    + Cardinality({c \in CallIds : Pending(c)})

\* A new call takes the lowest slot that has no pending call.
CanStart(c) ==
  /\ program = "AIEngine"
  /\ ~Pending(c)
  /\ \A d \in 1..(c - 1) : Pending(d)
  /\ CallsMade < MaxCalls

\* A cache hit that passes the limiter of the first provider of the order.
GenerateCachedRecords(c, prompt, preferred) ==
  LET cacheKey == WorkflowKey(prompt, preferred)
      p == GetProviderOrder(preferred, requests)[1]
  IN /\ CanStart(c)
     /\ CacheFresh(cache, cacheKey, now)
     /\ cacheHits' = cacheHits + 1
     /\ limiters' = [limiters EXCEPT ![p] = RecordRequest(Cleanup(limiters[p], now), now)]
     /\ admitted' = [admitted EXCEPT ![p] = Append(@, now)]
     /\ calls' = [calls EXCEPT ![c] = [IdleCall EXCEPT !.pc = "done",
                    !.preferred = preferred, !.key = cacheKey, !.start = now,
                    !.result = [kind |-> "cached", data |-> CacheEntry(cache, cacheKey).data,
                                error |-> NullError]]]
     /\ UNCHANGED <<program, now, apiKeys, cache, requests, latencies, errors,
                    outcomes, clientVars, bucketVars, cacheOpVars, workerVars, handlerVars,
                    sent>>

\* AIEngine.generateWorkflow, the cache holds a fresh entry: return it.
GenerateCached(c, prompt, preferred) ==
  LET cacheKey == WorkflowKey(prompt, preferred)
  IN /\ CanStart(c)
     /\ CacheFresh(cache, cacheKey, now)
     /\ cacheHits' = cacheHits + 1
     /\ calls' = [calls EXCEPT ![c] = [IdleCall EXCEPT !.pc = "done",
                    !.preferred = preferred, !.key = cacheKey, !.start = now,
                    !.result = [kind |-> "cached", data |-> CacheEntry(cache, cacheKey).data,
                                error |-> NullError]]]
     /\ UNCHANGED <<program, now, apiKeys, cache, limiters, requests, latencies, errors,
                    admitted, outcomes, clientVars, bucketVars, cacheOpVars, workerVars, handlerVars,
                    sent>>

\* AIEngine.generateWorkflow, no fresh entry: getFromCache deletes the key, and
\* executeWithFallback fixes the provider order.
GenerateStart(c, prompt, preferred) ==
  LET cacheKey == WorkflowKey(prompt, preferred)
  IN /\ CanStart(c)
     /\ ~CacheFresh(cache, cacheKey, now)
     /\ cache' = CacheAfterGet(cache, cacheKey, now)
     /\ calls' = [calls EXCEPT ![c] = [IdleCall EXCEPT !.pc = "select",
                    !.preferred = preferred, !.key = cacheKey, !.start = now,
                    !.providers = GetProviderOrder(preferred, requests), !.idx = 1]]
     /\ UNCHANGED <<program, now, apiKeys, limiters, requests, cacheHits, latencies, errors,
                    admitted, outcomes, clientVars, bucketVars, cacheOpVars, workerVars, handlerVars,
                    sent>>

Selecting(c) ==
  /\ program = "AIEngine"
  /\ calls[c].pc = "select"
  /\ calls[c].idx <= Len(calls[c].providers)

Candidate(c) == calls[c].providers[calls[c].idx]

\* executeWithFallback: canMakeRequest() is false, continue.
SkipRateLimited(c) ==
  /\ Selecting(c)
  /\ LET p == Candidate(c)
     IN /\ ~CanMakeRequest(limiters[p], now, RateLimitRequests(p))
        /\ limiters' = [limiters EXCEPT ![p] = Cleanup(limiters[p], now)]
        /\ calls' = [calls EXCEPT ![c] = [@ EXCEPT !.idx = @ + 1,
                       !.trace = Append(@, Event(p, "skipRate"))]]
  /\ UNCHANGED <<program, now, apiKeys, cache, requests, cacheHits, latencies, errors,
                 admitted, outcomes, clientVars, bucketVars, cacheOpVars, workerVars, handlerVars,
                 sent>>

\* executeWithFallback: isConfigured() is false, continue.
SkipUnconfigured(c) ==
  /\ Selecting(c)
  /\ LET p == Candidate(c)
     IN /\ CanMakeRequest(limiters[p], now, RateLimitRequests(p))
        /\ ~IsConfigured(p)
        /\ limiters' = [limiters EXCEPT ![p] = Cleanup(limiters[p], now)]
        /\ calls' = [calls EXCEPT ![c] = [@ EXCEPT !.idx = @ + 1,
                       !.trace = Append(@, Event(p, "skipKey"))]]
  /\ UNCHANGED <<program, now, apiKeys, cache, requests, cacheHits, latencies, errors,
                 admitted, outcomes, clientVars, bucketVars, cacheOpVars, workerVars, handlerVars,
                 sent>>

\* executeWithFallback: recordRequest(), then executeWithRetry sends attempt 0.
\* The times of the attempts sent to the provider are kept as history.
Invoke(c) ==
  /\ Selecting(c)
  /\ LET p == Candidate(c)
     IN /\ CanMakeRequest(limiters[p], now, RateLimitRequests(p))
        /\ IsConfigured(p)
        /\ limiters' = [limiters EXCEPT ![p] = RecordRequest(Cleanup(limiters[p], now), now)]
        /\ admitted' = [admitted EXCEPT ![p] = Append(@, now)]
        /\ sent' = [sent EXCEPT ![p] = Append(Cleanup(@, now), now)]
        /\ calls' = [calls EXCEPT ![c] = [@ EXCEPT !.pc = "inflight", !.attempt = 0,
                       !.trace = Append(@, Event(p, "invoke"))]]
  /\ UNCHANGED <<program, now, apiKeys, cache, requests, cacheHits, latencies, errors,
                 outcomes, clientVars, bucketVars, cacheOpVars, workerVars, handlerVars>>

\* executeWithFallback: the loop is over; generateWorkflow's catch records the
\* failure and throws AIEngineError(originalError).
Exhausted(c) ==
  /\ program = "AIEngine"
  /\ calls[c].pc = "select"
  /\ calls[c].idx > Len(calls[c].providers)
  /\ calls' = [calls EXCEPT ![c] = [@ EXCEPT !.pc = "done",
                 !.result = [kind |-> "AIEngineError", data |-> <<>>,
                             error |-> ThrownError(calls[c].lastError)]]]
  /\ requests' = RecordGenerationRequests(requests, "workflow", FALSE)
  /\ latencies' = RecordGenerationLatencies(latencies, now - calls[c].start, FALSE)
  /\ UNCHANGED <<program, now, apiKeys, cache, limiters, cacheHits, errors, admitted,
                 outcomes, clientVars, bucketVars, cacheOpVars, workerVars, handlerVars, sent>>

\* The attempt in flight returns a workflow: executeWithRetry and executeWithFallback
\* return it, generateWorkflow caches it, records the success and returns it.
AttemptSucceeds(c) ==
  /\ program = "AIEngine"
  /\ calls[c].pc = "inflight"
  /\ LET p == Candidate(c)
         result == <<p, c>>
     IN /\ cache' = SetCache(cache, calls[c].key, result, now)
        /\ calls' = [calls EXCEPT ![c] = [@ EXCEPT !.pc = "done",
                       !.result = [kind |-> "ok", data |-> result, error |-> NullError],
                       !.trace = Append(@, Event(p, "ok"))]]
        /\ outcomes' = [outcomes EXCEPT ![p].ok = @ + 1]
  /\ requests' = RecordGenerationRequests(requests, "workflow", TRUE)
  /\ latencies' = RecordGenerationLatencies(latencies, now - calls[c].start, TRUE)
  /\ UNCHANGED <<program, now, apiKeys, limiters, cacheHits, errors, admitted,
                 clientVars, bucketVars, cacheOpVars, workerVars, handlerVars, sent>>

\* An executeWithRetry whose catch always waits and sends again.
AttemptAlwaysRetried(c, msg) ==
  /\ program = "AIEngine"
  /\ calls[c].pc = "inflight"
  /\ calls' = [calls EXCEPT ![c] = [@ EXCEPT !.pc = "backoff"]]
  /\ UNCHANGED <<program, now, apiKeys, cache, limiters, requests, cacheHits, latencies,
                 errors, admitted, outcomes, clientVars, bucketVars, cacheOpVars, workerVars,
                 handlerVars, sent>>

\* The attempt in flight fails (the provider throws, or timeout() wins the race;
\* how long the attempt took is not modelled).  With attempts left executeWithRetry
\* waits; after the last one it throws and executeWithFallback keeps the error.
AttemptFails(c, msg) ==
  /\ program = "AIEngine"
  /\ calls[c].pc = "inflight"
  /\ LET p == Candidate(c)
         error == [msg |-> msg, by |-> p]
     IN IF calls[c].attempt < MaxRetries - 1
        THEN /\ calls' = [calls EXCEPT ![c] = [@ EXCEPT !.pc = "backoff"]]
             /\ UNCHANGED outcomes
        ELSE /\ calls' = [calls EXCEPT ![c] = [@ EXCEPT !.pc = "select",
                            !.lastError = CatchError(@, error), !.idx = @ + 1,
                            !.trace = Append(@, Event(p, "fail"))]]
             /\ outcomes' = [outcomes EXCEPT ![p].fail = @ + 1]
  /\ UNCHANGED <<program, now, apiKeys, cache, limiters, requests, cacheHits, latencies,
                 errors, admitted, clientVars, bucketVars, cacheOpVars, workerVars, handlerVars,
                 sent>>

\* executeWithRetry: the delay is over, the next attempt is sent.
BackoffDone(c) ==
  /\ program = "AIEngine"
  /\ calls[c].pc = "backoff"
  /\ calls' = [calls EXCEPT ![c] = [@ EXCEPT !.pc = "inflight", !.attempt = @ + 1,
                 !.trace = Append(@, Event(Candidate(c), "retry"))]]
  /\ sent' = [sent EXCEPT ![Candidate(c)] = Append(Cleanup(@, now), now)]
  /\ UNCHANGED <<program, now, apiKeys, cache, limiters, requests, cacheHits, latencies,
                 errors, admitted, outcomes, clientVars, bucketVars, cacheOpVars, workerVars,
                 handlerVars>>

\* AIEngine.clearCache
ClearCache ==
  /\ program = "AIEngine"
  /\ cache # <<>>
  /\ cache' = <<>>
  /\ UNCHANGED <<program, now, apiKeys, limiters, requests, cacheHits, latencies, errors,
                 calls, admitted, outcomes, clientVars, bucketVars, cacheOpVars, workerVars, handlerVars,
                 sent>>

\* What an attempt may fail with: timeout()'s error, or the provider's.
ErrorMessages == {"Request timeout", "API error"}

\* ---------------------------------------------------------- token bucket
\* SecurityManager.createRateLimiter at time t
CreateRateLimiter(maxRequests, windowMs, t) ==
  [tokens |-> maxRequests, maxTokens |-> maxRequests, lastRefill |-> t, windowMs |-> windowMs]

\* refillTokens: Math.floor((timePassed / windowMs) * maxTokens), which for the
\* small integers of the model is the integer quotient below.
RefillTokens(b, t) ==
  LET timePassed == t - b.lastRefill
      tokensToAdd == (timePassed * b.maxTokens) \div b.windowMs
      sum == b.tokens + tokensToAdd
  IN IF tokensToAdd > 0
     THEN [b EXCEPT !.tokens = IF sum < b.maxTokens THEN sum ELSE b.maxTokens, !.lastRefill = t]
     ELSE b

\* canMakeRequest: its answer
BucketCanMakeRequest(b, t) == RefillTokens(b, t).tokens > 0

\* canMakeRequest without tokens--.
BucketNeverSpends(b, t) == RefillTokens(b, t)

\* canMakeRequest: the bucket it leaves
BucketAfterRequest(b, t) ==
  LET refilled == RefillTokens(b, t)
  IN IF refilled.tokens > 0 THEN [refilled EXCEPT !.tokens = @ - 1] ELSE refilled

\* ------------------------------------------------------------- APIClient
\* APIClient.maxRetries
ClientMaxRetries == 3

\* availableProviders of APIClient.getProviderOrder
AvailableProviders == <<"groq", "openrouter", "huggingface">>

\* APIClient.getProviderOrder
ClientGetProviderOrder(preferredProvider) ==
  IF preferredProvider # "null" /\ preferredProvider \in SeqToSet(AvailableProviders)
  THEN <<preferredProvider>> \o Without(AvailableProviders, preferredProvider)
  ELSE AvailableProviders

\* APIClient.setupRateLimiters at time t
SetupRateLimiters(t) ==
  [p \in Providers |->
     CASE p = "groq" -> CreateRateLimiter(ClientLimitGroq, ClientWindowMinute, t)
       [] p = "huggingface" -> CreateRateLimiter(ClientLimitHuggingface, ClientWindowHour, t)
       [] p = "openrouter" -> CreateRateLimiter(ClientLimitOpenrouter, ClientWindowMinute, t)]

\* What fetch and the provider may answer to makeRequest, generateWith<Provider>.
Responses == {"ok", "429", "401", "500", "404", "fetch", "abort", "shape"}

\* The message of the error each answer is turned into (up to the provider's name):
\* status 429, 401 / 403, >= 500, any other not ok; fetch rejecting with a
\* TypeError; the AbortError of controller.abort(); the TypeError of
\* response.choices[0] on a body without choices.
ResponseMessage(response) ==
  CASE response = "429" -> "Rate limit exceeded for"
    [] response = "401" -> "Authentication failed for"
    [] response = "500" -> "Server error from"
    [] response = "404" -> "API error from"
    [] response = "fetch" -> "Failed to fetch"
    [] response = "abort" -> "signal is aborted without reason"
    [] response = "shape" -> "Cannot read properties of undefined"

\* APIClient.shouldRetry: of the messages above, lower-cased, only 'server error
\* from' includes one of 'fetch failed', 'network error', 'timeout',
\* 'server error', 'temporarily unavailable'.
ShouldRetry(message) == message \in {"Server error from"}

\* btoa without its = padding: the 6-bit digits of the bytes of str.
Byte(str, i) == IF i <= Len(str) THEN str[i] ELSE 0

Sextet(str, j) ==
  LET g == j \div 4
      b0 == Byte(str, 3 * g + 1)
      b1 == Byte(str, 3 * g + 2)
      b2 == Byte(str, 3 * g + 3)
  IN CASE j % 4 = 0 -> b0 \div 4
       [] j % 4 = 1 -> (b0 % 4) * 16 + (b1 \div 16)
       [] j % 4 = 2 -> (b1 % 16) * 4 + (b2 \div 64)
       [] j % 4 = 3 -> b2 % 64

Btoa(str) == [j \in 1..((Len(str) * 8 + 5) \div 6) |-> Sextet(str, j - 1)]

NotPlusSlash(digit) == digit < 62

\* DataStorageManager.generateCacheKey: btoa(endpoint + paramString).replace(/[+/=]/g, '')
GenerateCacheKey(endpoint, paramString) == SelectSeq(Btoa(endpoint \o paramString), NotPlusSlash)

\* 'generateWorkflow', as char codes
WorkflowEndpoint == <<103,101,110,101,114,97,116,101,87,111,114,107,102,108,111,119>>

\* JSON.stringify({ prompt, options }), as char codes
ParamString(prompt, preferred) ==
  <<123,34,112,114,111,109,112,116,34,58,34>> \o prompt
    \o <<34,44,34,111,112,116,105,111,110,115,34,58>> \o OptionsStr(preferred) \o <<125>>

\* generateCacheKey('generateWorkflow', { prompt, options }) of every request of the model
ClientKeys ==
  {<<r, GenerateCacheKey(WorkflowEndpoint, ParamString(r[1], r[2]))>> :
     r \in Prompts \X PreferredInputs}

\* Each key is named by one request that has it, so that two requests name the
\* same key exactly when generateCacheKey gives them the same string.
ClientKeyNames == {<<e[1], (CHOOSE f \in ClientKeys : f[2] = e[2])[1]>> : e \in ClientKeys}

ClientCacheKey(prompt, preferred) ==
  (CHOOSE e \in ClientKeyNames : e[1] = <<prompt, preferred>>)[2]

ClientKeySet == {e[2] : e \in ClientKeyNames}

\* ------------------------------------------------------ DataStorageManager
NoEntry == [value |-> <<>>, expiresAt |-> 0]

\* getSecure: the memory cache answers (!cached.expiresAt || Date.now() < cached.expiresAt)
MemoryFresh(mem, key, t) == mem[key] # NoEntry /\ t < mem[key].expiresAt

\* getSecure: the stored entry is there and not expired (Date.now() > expiresAt is expired)
StorageFresh(sto, key, t) == sto[key] # NoEntry /\ ~(t > sto[key].expiresAt)

\* getSecure: whether it resolves with a value rather than the default.  readOk is
\* false when chrome.storage.local.get reports an error.
GetSecureHit(mem, sto, key, t, readOk) ==
  MemoryFresh(mem, key, t) \/ (readOk /\ StorageFresh(sto, key, t))

\* getSecure: the value it resolves with
GetSecureValue(mem, sto, key, t) ==
  IF MemoryFresh(mem, key, t) THEN mem[key].value ELSE sto[key].value

\* getSecure: the memory cache it leaves.  An expired memory entry is deleted, a
\* fresh stored entry is copied in, remove() deletes the entry of an expired one.
GetSecureMemory(mem, sto, key, t, readOk) ==
  IF MemoryFresh(mem, key, t) THEN mem
  ELSE IF readOk /\ StorageFresh(sto, key, t) THEN [mem EXCEPT ![key] = sto[key]]
  ELSE [mem EXCEPT ![key] = NoEntry]

\* getSecure: the storage it leaves.  removeOk is false when
\* chrome.storage.local.remove reports an error.
GetSecureStorage(mem, sto, key, t, readOk, removeOk) ==
  IF ~MemoryFresh(mem, key, t) /\ readOk /\ sto[key] # NoEntry /\ t > sto[key].expiresAt /\ removeOk
  THEN [sto EXCEPT ![key] = NoEntry]
  ELSE sto

\* cacheApiResponse / setSecure: the entry written to the storage and to the memory
\* cache; nothing is written when chrome.storage.local.set reports an error.
CacheApiResponse(store, key, response, t, writeOk) ==
  IF writeOk THEN [store EXCEPT ![key] = [value |-> response, expiresAt |-> t + StorageExpiry]]
  ELSE store

\* ------------------------------------------- APIClient.generateWorkflow
IdleRequest ==
  [pc |-> "idle", count |-> 0, preferred |-> "null", key |-> <<>>,
   providers |-> <<>>, idx |-> 0, retryCount |-> 0,
   lastError |-> NullError, result |-> NoResult, trace |-> <<>>]

\* dataStorageManager.setApiKey stores a key for provider p.
ClientSetApiKey(p) ==
  /\ program = "APIClient"
  /\ p \notin storedKeys
  /\ storedKeys' = storedKeys \cup {p}
  /\ UNCHANGED <<program, now, engineVars, initialized, buckets, memoryCache, storage,
                 request, bucketVars, cacheOpVars, workerVars, handlerVars>>

ClientCanStart ==
  /\ program = "APIClient"
  /\ request.pc \in {"idle", "done"}
  /\ request.count < MaxCalls

\* APIClient.initialize, on the first call
Initialize ==
  /\ initialized' = TRUE
  /\ buckets' = IF initialized THEN buckets ELSE SetupRateLimiters(now)

\* APIClient.generateWorkflow, getCachedApiResponse resolves with a response: return it.
ClientGenerateCached(prompt, preferred) ==
  LET cacheKey == ClientCacheKey(prompt, preferred)
  IN /\ ClientCanStart
     /\ GetSecureHit(memoryCache, storage, cacheKey, now, TRUE)
     /\ Initialize
     /\ memoryCache' = GetSecureMemory(memoryCache, storage, cacheKey, now, TRUE)
     /\ request' = [IdleRequest EXCEPT !.pc = "done", !.count = request.count + 1,
                      !.preferred = preferred, !.key = cacheKey,
                      !.result = [kind |-> "cached", error |-> NullError,
                                  data |-> GetSecureValue(memoryCache, storage, cacheKey, now)]]
     /\ UNCHANGED <<program, now, engineVars, storedKeys, storage, bucketVars, cacheOpVars, workerVars, handlerVars>>

\* APIClient.generateWorkflow, getCachedApiResponse resolves with null (nothing
\* fresh, or the storage cannot be read): getProviderOrder fixes the candidates.
ClientGenerateStart(prompt, preferred, readOk, removeOk) ==
  LET cacheKey == ClientCacheKey(prompt, preferred)
  IN /\ ClientCanStart
     /\ ~GetSecureHit(memoryCache, storage, cacheKey, now, readOk)
     /\ Initialize
     /\ memoryCache' = GetSecureMemory(memoryCache, storage, cacheKey, now, readOk)
     /\ storage' = GetSecureStorage(memoryCache, storage, cacheKey, now, readOk, removeOk)
     /\ request' = [IdleRequest EXCEPT !.pc = "select", !.count = request.count + 1,
                      !.preferred = preferred, !.key = cacheKey,
                      !.providers = ClientGetProviderOrder(preferred), !.idx = 1]
     /\ UNCHANGED <<program, now, engineVars, storedKeys, bucketVars, cacheOpVars, workerVars, handlerVars>>

ClientSelecting ==
  /\ program = "APIClient"
  /\ request.pc = "select"
  /\ request.idx <= Len(request.providers)

ClientCandidate == request.providers[request.idx]

\* generateWith<Provider>: checkRateLimit throws, generateWorkflow keeps the error.
ClientRateLimited ==
  /\ ClientSelecting
  /\ LET p == ClientCandidate
     IN /\ ~BucketCanMakeRequest(buckets[p], now)
        /\ buckets' = [buckets EXCEPT ![p] = BucketAfterRequest(buckets[p], now)]
        /\ request' = [request EXCEPT !.idx = @ + 1,
                         !.lastError = [msg |-> "Rate limit exceeded for, try again", by |-> p],
                         !.trace = Append(@, Event(p, "denied"))]
  /\ UNCHANGED <<program, now, engineVars, initialized, storedKeys, memoryCache, storage,
                 bucketVars, cacheOpVars, workerVars, handlerVars>>

\* generateWith<Provider>: the bucket grants a token, getApiKey throws, the
\* provider returns { success: false } and generateWorkflow keeps the error.
ClientNoKey ==
  /\ ClientSelecting
  /\ LET p == ClientCandidate
     IN /\ BucketCanMakeRequest(buckets[p], now)
        /\ p \notin storedKeys
        /\ buckets' = [buckets EXCEPT ![p] = BucketAfterRequest(buckets[p], now)]
        /\ request' = [request EXCEPT !.idx = @ + 1,
                         !.lastError = [msg |-> "No API key configured for provider", by |-> p],
                         !.trace = Append(@, Event(p, "noKey"))]
  /\ UNCHANGED <<program, now, engineVars, initialized, storedKeys, memoryCache, storage,
                 bucketVars, cacheOpVars, workerVars, handlerVars>>

\* generateWith<Provider>: the bucket grants a token, the key is there, makeRequest
\* sends the request.
ClientSend ==
  /\ ClientSelecting
  /\ LET p == ClientCandidate
     IN /\ BucketCanMakeRequest(buckets[p], now)
        /\ p \in storedKeys
        /\ buckets' = [buckets EXCEPT ![p] = BucketAfterRequest(buckets[p], now)]
        /\ request' = [request EXCEPT !.pc = "inflight", !.retryCount = 0,
                         !.trace = Append(@, Event(p, "send"))]
  /\ UNCHANGED <<program, now, engineVars, initialized, storedKeys, memoryCache, storage,
                 bucketVars, cacheOpVars, workerVars, handlerVars>>

\* makeRequest resolves and the body has choices: generateWith<Provider> returns
\* { success: true }, generateWorkflow awaits cacheApiResponse and returns the result.
ClientSucceeds(writeOk) ==
  /\ program = "APIClient"
  /\ request.pc = "inflight"
  /\ LET p == ClientCandidate
         result == <<p, request.count>>
     IN /\ storage' = CacheApiResponse(storage, request.key, result, now, writeOk)
        /\ memoryCache' = CacheApiResponse(memoryCache, request.key, result, now, writeOk)
        /\ request' = [request EXCEPT !.pc = "done",
                         !.result = [kind |-> "ok", data |-> result, error |-> NullError],
                         !.trace = Append(@, Event(p, "ok"))]
  /\ UNCHANGED <<program, now, engineVars, initialized, buckets, storedKeys,
                 bucketVars, cacheOpVars, workerVars, handlerVars>>

\* makeRequest's attempt fails: it waits and sends again while retryCount <
\* maxRetries and shouldRetry(error); otherwise generateWith<Provider> returns
\* { success: false } and generateWorkflow keeps the error.
ClientFails(response) ==
  /\ program = "APIClient"
  /\ request.pc = "inflight"
  /\ response # "ok"
  /\ LET p == ClientCandidate
         error == [msg |-> ResponseMessage(response), by |-> p]
     IN IF request.retryCount < ClientMaxRetries /\ ShouldRetry(error.msg)
        THEN request' = [request EXCEPT !.pc = "backoff"]
        ELSE request' = [request EXCEPT !.pc = "select", !.lastError = error,
                           !.idx = @ + 1, !.trace = Append(@, Event(p, "fail"))]
  /\ UNCHANGED <<program, now, engineVars, initialized, buckets, storedKeys, memoryCache,
                 storage, bucketVars, cacheOpVars, workerVars, handlerVars>>

\* makeRequest: the delay retryDelays[retryCount] is over, the request is sent again.
ClientBackoffDone ==
  /\ program = "APIClient"
  /\ request.pc = "backoff"
  /\ request' = [request EXCEPT !.pc = "inflight", !.retryCount = @ + 1,
                   !.trace = Append(@, Event(ClientCandidate, "retry"))]
  /\ UNCHANGED <<program, now, engineVars, initialized, buckets, storedKeys, memoryCache,
                 storage, bucketVars, cacheOpVars, workerVars, handlerVars>>

\* generateWorkflow: the loop is over, throw lastError || new Error('All AI providers failed').
ClientExhausted ==
  /\ program = "APIClient"
  /\ request.pc = "select"
  /\ request.idx > Len(request.providers)
  /\ request' = [request EXCEPT !.pc = "done",
                   !.result = [kind |-> "Error", data |-> <<>>,
                               error |-> ThrownError(request.lastError)]]
  /\ UNCHANGED <<program, now, engineVars, initialized, buckets, storedKeys, memoryCache,
                 storage, bucketVars, cacheOpVars, workerVars, handlerVars>>

\* The failures drawn for the requests of a behaviour: one that makeRequest
\* retries and one that it does not.
ClientFailures == {"500", "401"}

\* -------------------------------------------- APIClient.getRateLimiterStatus
\* getRateLimiterStatus: for every limiter of this.rateLimiters the status holds
\* canMakeRequest: limiter.canMakeRequest(), the call checkRateLimit makes too.
\* Before initialize the map of limiters is empty.
GetRateLimiterStatus ==
  /\ program = "APIClient"
  /\ initialized
  /\ buckets' = [p \in Providers |-> BucketAfterRequest(buckets[p], now)]
  /\ UNCHANGED <<program, now, engineVars, initialized, storedKeys, memoryCache, storage,
                 request, bucketVars, cacheOpVars, workerVars, handlerVars>>

\* ------------------------------------------------ APIClient.generateWithGroq
\* generateWithGroq called on its own, as the tests call it.  initialize and
\* checkRateLimit stand before the try; what the try block throws is caught and
\* returned as { success: false, provider, error: error.message }.
GroqCanStart ==
  /\ program = "APIClient"
  /\ request.pc \in {"idle", "done"}
  /\ request.count < MaxGroqCalls

\* this.rateLimiters after `if (!this.initialized) await this.initialize()`.
BucketsAfterInitialize == IF initialized THEN buckets ELSE SetupRateLimiters(now)

\* The call of generateWithGroq as it starts: the provider is 'groq'.
GroqCall ==
  [IdleRequest EXCEPT !.count = request.count + 1, !.providers = <<"groq">>, !.idx = 1]

\* checkRateLimit throws 'Rate limit exceeded for groq. Try again in ...':
\* generateWithGroq throws.
GroqRateLimited ==
  /\ GroqCanStart
  /\ ~BucketCanMakeRequest(BucketsAfterInitialize["groq"], now)
  /\ initialized' = TRUE
  /\ buckets' = [BucketsAfterInitialize EXCEPT
                   !["groq"] = BucketAfterRequest(BucketsAfterInitialize["groq"], now)]
  /\ request' = [GroqCall EXCEPT !.pc = "done",
                   !.result = [kind |-> "threw", data |-> <<>>,
                               error |-> [msg |-> "Rate limit exceeded for, try again",
                                          by |-> "groq"]],
                   !.trace = <<Event("groq", "denied")>>]
  /\ UNCHANGED <<program, now, engineVars, storedKeys, memoryCache, storage,
                 bucketVars, cacheOpVars, workerVars, handlerVars>>

\* getApiKey throws 'No API key configured for provider: groq' inside the try:
\* the catch returns { success: false, error: error.message }.
GroqNoKey ==
  /\ GroqCanStart
  /\ BucketCanMakeRequest(BucketsAfterInitialize["groq"], now)
  /\ "groq" \notin storedKeys
  /\ initialized' = TRUE
  /\ buckets' = [BucketsAfterInitialize EXCEPT
                   !["groq"] = BucketAfterRequest(BucketsAfterInitialize["groq"], now)]
  /\ request' = [GroqCall EXCEPT !.pc = "done",
                   !.result = [kind |-> "failure", data |-> <<>>,
                               error |-> [msg |-> "No API key configured for provider",
                                          by |-> "groq"]],
                   !.trace = <<Event("groq", "noKey")>>]
  /\ UNCHANGED <<program, now, engineVars, storedKeys, memoryCache, storage,
                 bucketVars, cacheOpVars, workerVars, handlerVars>>

\* The key is there: makeRequest sends the request.
GroqSend ==
  /\ GroqCanStart
  /\ BucketCanMakeRequest(BucketsAfterInitialize["groq"], now)
  /\ "groq" \in storedKeys
  /\ initialized' = TRUE
  /\ buckets' = [BucketsAfterInitialize EXCEPT
                   !["groq"] = BucketAfterRequest(BucketsAfterInitialize["groq"], now)]
  /\ request' = [GroqCall EXCEPT !.pc = "inflight", !.trace = <<Event("groq", "send")>>]
  /\ UNCHANGED <<program, now, engineVars, storedKeys, memoryCache, storage,
                 bucketVars, cacheOpVars, workerVars, handlerVars>>

\* makeRequest resolves: return { success: true, provider, content, ... }.
GroqSucceeds ==
  /\ program = "APIClient"
  /\ request.pc = "inflight"
  /\ request' = [request EXCEPT !.pc = "done",
                   !.result = [kind |-> "ok", data |-> <<"groq", request.count>>,
                               error |-> NullError],
                   !.trace = Append(@, Event("groq", "ok"))]
  /\ UNCHANGED <<program, now, engineVars, initialized, buckets, storedKeys, memoryCache,
                 storage, bucketVars, cacheOpVars, workerVars, handlerVars>>

\* makeRequest's attempt fails: it waits and sends again, or it throws and the
\* catch of generateWithGroq returns { success: false, error: error.message }.
GroqFails(response) ==
  /\ program = "APIClient"
  /\ request.pc = "inflight"
  /\ response # "ok"
  /\ LET error == [msg |-> ResponseMessage(response), by |-> "groq"]
     IN IF request.retryCount < ClientMaxRetries /\ ShouldRetry(error.msg)
        THEN request' = [request EXCEPT !.pc = "backoff"]
        ELSE request' = [request EXCEPT !.pc = "done",
                           !.result = [kind |-> "failure", data |-> <<>>, error |-> error],
                           !.trace = Append(@, Event("groq", "fail"))]
  /\ UNCHANGED <<program, now, engineVars, initialized, buckets, storedKeys, memoryCache,
                 storage, bucketVars, cacheOpVars, workerVars, handlerVars>>

\* ---------------------------------------------------------- retry loops
\* The three retry loops of the sources, each run on its own: "provider" is
\* AIEngine.executeWithRetry, "step" is the service worker's retryStep and
\* "client" is APIClient.makeRequest.

\* The factor of the backoff, in ms: Math.pow(2, i) * 1000.
BackoffBase == 1000

\* retryStep(step, execution, tabId, maxRetries = 3), called without maxRetries.
StepMaxRetries == 3

\* APIClient.retryDelays
RetryDelays == <<1000, 2000, 4000>>

\* executeWithRetry, retryStep: Math.pow(2, i) * 1000
BackoffDelay(i) == (2 ^ i) * BackoffBase

\* makeRequest: this.retryDelays[retryCount] || 4000
ClientRetryDelay(retryCount) ==
  IF retryCount + 1 <= Len(RetryDelays) THEN RetryDelays[retryCount + 1] ELSE 4000

\* A guard that also waits after the last attempt.
WaitsAfterEveryAttempt(i, maxRetries) == i < maxRetries

\* executeWithRetry: if (i < maxRetries - 1) await this.delay(...)
WaitsBeforeNext(i, maxRetries) == i < maxRetries - 1

\* executeWithRetry, retryStep, catch (error): lastError = error
RetryCatch(lastError, error) == error

\* makeRequest: retryCount < this.maxRetries && this.shouldRetry(error)
ClientRetries(retryCount, response) ==
  retryCount < ClientMaxRetries /\ ShouldRetry(ResponseMessage(response))

\* What an attempt of a loop may fail with.  A provider's generateWorkflow throws
\* '<Provider> API error: <status>' for every status that is not ok, and
\* timeout() rejects with 'Request timeout'; executeStep of an 'api' step throws
\* 'API call failed: <status>'; makeRequest maps the status to a message.
RetryFailures(loop) ==
  IF loop = "client" THEN {"429", "401", "500", "404", "abort"}
  ELSE {"429", "401", "500", "404", "timeout"}

IdleRetry ==
  [loop |-> "none", pc |-> "idle", maxRetries |-> 0, i |-> 0, lastError |-> "undefined",
   attempts |-> 0, waits |-> <<>>, failures |-> <<>>, thrown |-> "none",
   cancelled |-> FALSE, sinceCancel |-> 0, abandoned |-> 0]

\* executeWithRetry(operation, maxRetries): i = 0, the first attempt is sent at once.
ExecuteWithRetry(maxRetries) ==
  /\ program = "RetryLoop"
  /\ retry.pc = "idle"
  /\ retry' = [IdleRetry EXCEPT !.loop = "provider", !.pc = "attempt",
                 !.maxRetries = maxRetries, !.attempts = 1]
  /\ UNCHANGED <<program, now, engineVars, clientVars, bucketVars, cacheOpVars,
                 workflow, executions, activeWorkflows, handlerVars>>

\* retryStep(step, execution, tabId): i = 0, the loop waits before its first attempt.
RetryStep ==
  /\ program = "RetryLoop"
  /\ retry.pc = "idle"
  /\ retry' = [IdleRetry EXCEPT !.loop = "step", !.pc = "wait",
                 !.maxRetries = StepMaxRetries, !.waits = <<BackoffDelay(0)>>]
  /\ UNCHANGED <<program, now, engineVars, clientVars, bucketVars, cacheOpVars,
                 workflow, executions, activeWorkflows, handlerVars>>

\* makeRequest(url, options, provider): retryCount = 0, fetch is called.
MakeRequest ==
  /\ program = "RetryLoop"
  /\ retry.pc = "idle"
  /\ retry' = [IdleRetry EXCEPT !.loop = "client", !.pc = "attempt",
                 !.maxRetries = ClientMaxRetries, !.attempts = 1]
  /\ UNCHANGED <<program, now, engineVars, clientVars, bucketVars, cacheOpVars,
                 workflow, executions, activeWorkflows, handlerVars>>

\* The attempt in flight returns: the loop returns its value.
RetryAttemptSucceeds ==
  /\ program = "RetryLoop"
  /\ retry.pc = "attempt"
  /\ retry' = [retry EXCEPT !.pc = "returned"]
  /\ UNCHANGED <<program, now, engineVars, clientVars, bucketVars, cacheOpVars,
                 workflow, executions, activeWorkflows, handlerVars>>

\* Promise.race([operation(), this.timeout(this.config.timeout)]): when
\* timeout() rejects first, the race is settled and the promise of operation()
\* is left as it is, one more operation that runs without anyone awaiting it.
Abandons(loop, response) == IF loop = "provider" /\ response = "timeout" THEN 1 ELSE 0

\* The attempt in flight throws, or timeout() wins the race.
\*   executeWithRetry: lastError = error; with i < maxRetries - 1 it waits
\*     2^i * 1000 ms, otherwise the for loop ends and lastError is thrown.
\*   retryStep: lastError = error; i++; with i < maxRetries the next pass of the
\*     loop waits 2^i * 1000 ms, otherwise lastError is thrown.
\*   makeRequest: with retryCount < maxRetries and shouldRetry(error) it waits
\*     retryDelays[retryCount], otherwise the error is thrown.
RetryAttemptFails(response) ==
  /\ program = "RetryLoop"
  /\ retry.pc = "attempt"
  /\ response \in RetryFailures(retry.loop)
  /\ LET error == RetryCatch(retry.lastError, response)
         failed == [retry EXCEPT !.lastError = error, !.failures = Append(@, response),
                                 !.abandoned = @ + Abandons(retry.loop, response)]
     IN CASE retry.loop = "provider" ->
               IF WaitsBeforeNext(retry.i, retry.maxRetries)
               THEN retry' = [failed EXCEPT !.pc = "wait",
                                !.waits = Append(@, BackoffDelay(retry.i))]
               ELSE retry' = [failed EXCEPT !.pc = "thrown", !.thrown = error]
          [] retry.loop = "step" ->
               IF retry.i + 1 < retry.maxRetries
               THEN retry' = [failed EXCEPT !.pc = "wait", !.i = @ + 1,
                                !.waits = Append(@, BackoffDelay(retry.i + 1))]
               ELSE retry' = [failed EXCEPT !.pc = "thrown", !.i = @ + 1, !.thrown = error]
          [] retry.loop = "client" ->
               IF ClientRetries(retry.i, response)
               THEN retry' = [failed EXCEPT !.pc = "wait",
                                !.waits = Append(@, ClientRetryDelay(retry.i))]
               ELSE retry' = [failed EXCEPT !.pc = "thrown", !.thrown = response]
  /\ UNCHANGED <<program, now, engineVars, clientVars, bucketVars, cacheOpVars,
                 workflow, executions, activeWorkflows, handlerVars>>

\* The delay is over and the next attempt is sent: executeWithRetry's i++,
\* makeRequest(url, options, provider, retryCount + 1), retryStep's executeStep.
RetryWaitDone ==
  /\ program = "RetryLoop"
  /\ retry.pc = "wait"
  /\ retry' = [retry EXCEPT !.pc = "attempt",
                 !.i = IF retry.loop = "step" THEN @ ELSE @ + 1,
                 !.attempts = @ + 1,
                 !.sinceCancel = IF retry.cancelled THEN @ + 1 ELSE @]
  /\ UNCHANGED <<program, now, engineVars, clientVars, bucketVars, cacheOpVars,
                 workflow, executions, activeWorkflows, handlerVars>>

\* An operation() whose race the timeout won settles at some later time; its
\* value or error goes nowhere.
AbandonedSettles ==
  /\ program = "RetryLoop"
  /\ retry.abandoned > 0
  /\ retry' = [retry EXCEPT !.abandoned = @ - 1]
  /\ UNCHANGED <<program, now, engineVars, clientVars, bucketVars, cacheOpVars,
                 workflow, executions, activeWorkflows, handlerVars>>

\* The caller of generateWorkflow or of EXECUTE_WORKFLOW gives up while the loop
\* waits or has an attempt in flight.  executeWithRetry(operation, maxRetries),
\* retryStep(step, execution, tabId, maxRetries) and makeRequest(url, options,
\* provider, retryCount) take no token or signal from their caller, so nothing
\* in the loop reads the request.
CallerCancels ==
  /\ program = "RetryLoop"
  /\ retry.pc \in {"attempt", "wait"}
  /\ ~retry.cancelled
  /\ retry' = [retry EXCEPT !.cancelled = TRUE]
  /\ UNCHANGED <<program, now, engineVars, clientVars, bucketVars, cacheOpVars,
                 workflow, executions, activeWorkflows, handlerVars>>

\* ------------------------------------------------- the workflow executor
\* handleExecuteWorkflow and executeWorkflow of the service worker.  A value a
\* step or a loop produces is a number or an array; the execution context is a
\* JavaScript object, and execution[name] = value writes whatever property the
\* workflow names.
Num(k) == [kind |-> "number", n |-> k, items |-> <<>>]

Arr(s) == [kind |-> "array", n |-> 0, items |-> s]

\* Array.prototype.push exists on the value.
IsArray(v) == v.kind = "array"

\* step.storeAs and the loop's action.variable as a workflow may name them:
\* absent ("none"), a name of its own, or the name of a property the executor
\* keeps on the execution context.
StoreNames == {"none", "data", "currentStep", "errors"}

LoopVariables == {"item", "currentStep"}

\* action.items of a loop step (action.steps then holds one inner step), and
\* what a step that is not a loop returns.
LoopItems == <<0>>

StepValue == Num(0)

\* step.conditions as evaluateCondition answers for each of its entries.
ConditionInputs == {<<TRUE>>, <<TRUE, FALSE>>, <<FALSE, TRUE>>}

\* The steps a workflow is made of.  innerDeclared and innerConditions are the
\* conditions of the steps in a loop's action.steps.
StepInputs ==
  {[type |-> "click", errorHandling |-> m, declared |-> d[1], conditions |-> d[2],
    storeAs |-> s, variable |-> "item", items |-> <<>>, steps |-> 0,
    innerDeclared |-> FALSE, innerConditions |-> <<>>] :
      m \in {"fail", "retry", "none"},
      d \in ({<<FALSE, <<>> >>} \cup ({TRUE} \X ConditionInputs)),
      s \in StoreNames}
  \cup
  {[type |-> "loop", errorHandling |-> m, declared |-> d[1], conditions |-> d[2],
    storeAs |-> "none", variable |-> v, items |-> LoopItems, steps |-> 1,
    innerDeclared |-> FALSE, innerConditions |-> <<>>] :
      m \in {"fail", "retry", "none"},
      d \in ({<<FALSE, <<>> >>} \cup ({TRUE} \X ConditionInputs)),
      v \in LoopVariables}

\* Conditions combined with some() instead of every().
EvaluateConditionsSome(conditions) == \E k \in 1..Len(conditions) : conditions[k]

\* evaluateConditions: conditions.every(condition => evaluateCondition(condition, context))
EvaluateConditions(conditions) == \A k \in 1..Len(conditions) : conditions[k]

\* executeWorkflow: step.conditions && !evaluateConditions(step.conditions, execution)
Skips(step) == step.declared /\ ~EvaluateConditions(step.conditions)

\* execution[name] = value, for the properties of the context that are modelled.
StoreOn(x, name, value) ==
  CASE name = "currentStep" -> [x EXCEPT !.currentStep = value]
    [] name = "errors" -> [x EXCEPT !.errors = value]
    [] OTHER -> x

\* What executeStep returns: executeLoop returns the array of its inner results.
ResultOf(x, step) == IF step.type = "loop" THEN Arr(x.sub) ELSE StepValue

\* A pass of executeLoop that ends after its first inner step.
PassEndsEarly(inner, steps) == inner >= 1 \/ steps = 0

\* executeLoop, for (const step of steps): the pass over the inner steps is over.
PassDone(inner, steps) == inner = steps

\* delete that empties the Map.
RegistryClear(reg, id) == {}

\* serviceState.activeWorkflows.delete(id)
RegistryDelete(reg, id) == {r \in reg : r[1] # id}

\* serviceState.activeWorkflows.set(id, execution)
RegistrySet(reg, id, e) == {r \in reg : r[1] # id} \cup {<<id, e>>}

RegisteredIds == {r[1] : r \in activeWorkflows}

\* generateExecutionId: `exec_${Date.now()}_${Math.random()...substr(2, 9)}`
GenerateExecutionId(t, suffix) == <<t, suffix>>

\* The step of the outer sequence at the 0-based index i.
StepAt(i) == workflow[i + 1]

\* An entry of executeWorkflow's results: { stepId, skipped | result | retried | error }
Entry(i, kind) == [stepId |-> i, kind |-> kind]

\* An entry of an execution's history: what the executor did at step i.
Did(i, kind) == [step |-> i, kind |-> kind]

IdleExecution ==
  [pc |-> "idle", id |-> <<0, 0>>, status |-> "none", currentStep |-> Num(0),
   errors |-> Arr(<<>>), stored |-> <<>>, i |-> 0, results |-> <<>>, retrying |-> FALSE,
   retryI |-> 0, iter |-> 0, run |-> "none", error |-> "none", trace |-> <<>>,
   delays |-> <<>>, inner |-> 0, sub |-> <<>>, waits |-> <<>>]

\* executeWorkflow, the end of a pass of the for loop:
\* if (workflow.settings?.stepDelay) await delay(workflow.settings.stepDelay)
\* The steps after which the executor waited are kept as history.
StepDelay(x, k) == IF stepDelay # 0 THEN [x EXCEPT !.delays = Append(@, k)] ELSE x

\* handleExecuteWorkflow: getStoredWorkflow finds nothing, throw before any
\* execution context exists.
WorkflowNotFound(e) ==
  /\ program = "ServiceWorker"
  /\ executions[e].pc = "idle"
  /\ \A d \in 1..(e - 1) : executions[d].pc # "idle"
  /\ executions' = [executions EXCEPT ![e] = [@ EXCEPT !.pc = "thrown", !.error = "NotFound"]]
  /\ UNCHANGED <<program, now, engineVars, clientVars, bucketVars, cacheOpVars,
                 retry, workflow, activeWorkflows, handlerVars>>

\* handleExecuteWorkflow: the execution context is created with status
\* 'running' and currentStep 0 and is stored in activeWorkflows; executeWorkflow
\* is called.  Two ids generated while an execution is live are taken to differ.
BeginExecution(e, suffix) ==
  LET id == GenerateExecutionId(now, suffix)
  IN /\ program = "ServiceWorker"
     /\ executions[e].pc = "idle"
     /\ \A d \in 1..(e - 1) : executions[d].pc # "idle"
     /\ id \notin RegisteredIds
     /\ executions' = [executions EXCEPT ![e] = [IdleExecution EXCEPT !.pc = "loop",
                         !.id = id, !.status = "running", !.run = "running"]]
     /\ activeWorkflows' = RegistrySet(activeWorkflows, id, e)
     /\ UNCHANGED <<program, now, engineVars, clientVars, bucketVars, cacheOpVars,
                    retry, workflow, handlerVars>>

AtStep(e) ==
  /\ program = "ServiceWorker"
  /\ executions[e].pc = "loop"
  /\ executions[e].i < Len(workflow)

InStep(e) ==
  /\ program = "ServiceWorker"
  /\ executions[e].pc = "step"
  /\ StepAt(executions[e].i).type = "loop" =>
       /\ executions[e].iter = Len(StepAt(executions[e].i).items)
       /\ executions[e].iter = 0 \/ PassDone(executions[e].inner, StepAt(executions[e].i).steps)

\* executeWorkflow: execution.currentStep = i; the conditions do not all hold:
\* results.push({ stepId, skipped: true }); continue, which leaves the pass
\* before its step delay.
SkipStep(e) ==
  /\ AtStep(e)
  /\ LET x == executions[e]
     IN /\ Skips(StepAt(x.i))
        /\ executions' = [executions EXCEPT ![e] = [x EXCEPT !.currentStep = Num(x.i),
                            !.results = Append(@, Entry(x.i, "skipped")), !.i = @ + 1,
                            !.trace = Append(@, Did(x.i, "skip"))]]
  /\ UNCHANGED <<program, now, engineVars, clientVars, bucketVars, cacheOpVars,
                 retry, workflow, activeWorkflows, handlerVars>>

\* executeWorkflow: execution.currentStep = i; executeStep is called.
BeginStep(e) ==
  /\ AtStep(e)
  /\ LET x == executions[e]
     IN /\ ~Skips(StepAt(x.i))
        /\ executions' = [executions EXCEPT ![e] = [x EXCEPT !.currentStep = Num(x.i),
                            !.pc = "step", !.iter = 0, !.inner = 0, !.sub = <<>>,
                            !.retrying = FALSE,
                            !.trace = Append(@, Did(x.i, "begin"))]]
  /\ UNCHANGED <<program, now, engineVars, clientVars, bucketVars, cacheOpVars,
                 retry, workflow, activeWorkflows, handlerVars>>

\* executeLoop, for (const item of items): the pass of the previous item is
\* over, execution[variable] = item.
LoopIteration(e) ==
  /\ program = "ServiceWorker"
  /\ executions[e].pc = "step"
  /\ LET x == executions[e]
         step == StepAt(x.i)
     IN /\ step.type = "loop"
        /\ x.iter < Len(step.items)
        /\ x.iter = 0 \/ PassDone(x.inner, step.steps)
        /\ executions' = [executions EXCEPT ![e] =
                            [StoreOn(x, step.variable, Num(step.items[x.iter + 1]))
                               EXCEPT !.iter = @ + 1, !.inner = 0,
                                      !.trace = Append(@, Did(x.i, "iterate"))]]
  /\ UNCHANGED <<program, now, engineVars, clientVars, bucketVars, cacheOpVars,
                 retry, workflow, activeWorkflows, handlerVars>>

\* executeLoop, for (const step of steps): executeStep(step, execution, tabId)
\* returns and results.push(result); step.conditions of the inner step are read
\* by neither of the two.  A sub-result is kept as the item and the number of
\* the inner step it comes from.
InnerStepSucceeds(e) ==
  /\ program = "ServiceWorker"
  /\ executions[e].pc = "step"
  /\ LET x == executions[e]
         step == StepAt(x.i)
     IN /\ step.type = "loop"
        /\ x.iter >= 1
        /\ ~PassDone(x.inner, step.steps)
        /\ executions' = [executions EXCEPT ![e] = [x EXCEPT !.inner = @ + 1,
                            !.sub = Append(@, <<step.items[x.iter], x.inner + 1>>)]]
  /\ UNCHANGED <<program, now, engineVars, clientVars, bucketVars, cacheOpVars,
                 retry, workflow, activeWorkflows, handlerVars>>

\* executeStep returns: results.push({ stepId, result }),
\* execution.results.push(result), execution[step.storeAs] = result, the step
\* delay, i++.
StepSucceeds(e) ==
  /\ InStep(e)
  /\ LET x == executions[e]
         step == StepAt(x.i)
     IN /\ ~x.retrying
        /\ executions' = [executions EXCEPT ![e] =
                            [StepDelay(StoreOn(x, step.storeAs, ResultOf(x, step)), x.i)
                               EXCEPT !.pc = "loop", !.i = @ + 1,
                                      !.results = Append(@, Entry(x.i, "result")),
                                      !.stored = Append(@, x.i),
                                      !.trace = Append(@, Did(x.i, "ok"))]]
  /\ UNCHANGED <<program, now, engineVars, clientVars, bucketVars, cacheOpVars,
                 retry, workflow, activeWorkflows, handlerVars>>

\* executeStep throws and step.errorHandling === 'fail': throw error.
StepFailsAbort(e) ==
  /\ program = "ServiceWorker"
  /\ executions[e].pc = "step"
  /\ LET x == executions[e]
     IN /\ ~x.retrying
        /\ StepAt(x.i).errorHandling = "fail"
        /\ executions' = [executions EXCEPT ![e] = [x EXCEPT !.pc = "failed",
                            !.run = "threw", !.error = "StepError",
                            !.trace = Append(@, Did(x.i, "error"))]]
  /\ UNCHANGED <<program, now, engineVars, clientVars, bucketVars, cacheOpVars,
                 retry, workflow, activeWorkflows, handlerVars>>

\* A retryStep that gives up one pass early.
RetryBudgetShort(i, maxRetries) == i + 2 < maxRetries

\* retryStep, for (let i = 0; i < maxRetries; i++): after the pass i has failed
\* there is another pass.
RetryBudgetLeft(i, maxRetries) == i + 1 < maxRetries

\* executeStep throws and step.errorHandling === 'retry': retryStep is called
\* and waits 2^0 * 1000 ms.  The delays retryStep waits are kept as history.
StepFailsRetry(e) ==
  /\ program = "ServiceWorker"
  /\ executions[e].pc = "step"
  /\ LET x == executions[e]
     IN /\ ~x.retrying
        /\ StepAt(x.i).errorHandling = "retry"
        /\ executions' = [executions EXCEPT ![e] = [x EXCEPT !.pc = "retryWait",
                            !.retrying = TRUE, !.retryI = 0,
                            !.waits = <<BackoffDelay(0)>>,
                            !.trace = Append(@, Did(x.i, "error"))]]
  /\ UNCHANGED <<program, now, engineVars, clientVars, bucketVars, cacheOpVars,
                 retry, workflow, activeWorkflows, handlerVars>>

\* executeStep throws in any other mode: results.push({ stepId, error }) and
\* execution.errors.push({ step, error }); push on a value that is no array
\* throws a TypeError out of the catch block.
StepFailsContinue(e) ==
  /\ program = "ServiceWorker"
  /\ executions[e].pc = "step"
  /\ LET x == executions[e]
         recorded == [x EXCEPT !.results = Append(@, Entry(x.i, "error")),
                               !.trace = Append(@, Did(x.i, "error"))]
     IN /\ ~x.retrying
        /\ StepAt(x.i).errorHandling \notin {"fail", "retry"}
        /\ IF IsArray(x.errors)
           THEN executions' = [executions EXCEPT ![e] = [StepDelay(recorded, x.i) EXCEPT
                                 !.pc = "loop", !.i = @ + 1,
                                 !.errors = Arr(Append(x.errors.items, x.i))]]
           ELSE executions' = [executions EXCEPT ![e] = [recorded EXCEPT !.pc = "failed",
                                 !.run = "threw", !.error = "TypeError"]]
  /\ UNCHANGED <<program, now, engineVars, clientVars, bucketVars, cacheOpVars,
                 retry, workflow, activeWorkflows, handlerVars>>

\* retryStep: the delay is over, executeStep is called again.
RetryDelayDone(e) ==
  /\ program = "ServiceWorker"
  /\ executions[e].pc = "retryWait"
  /\ executions' = [executions EXCEPT ![e] = [@ EXCEPT !.pc = "step", !.iter = 0,
                      !.inner = 0, !.sub = <<>>,
                      !.trace = Append(@, Did(executions[e].i, "retry"))]]
  /\ UNCHANGED <<program, now, engineVars, clientVars, bucketVars, cacheOpVars,
                 retry, workflow, activeWorkflows, handlerVars>>

\* retryStep returns the result: results.push({ stepId, result, retried: true }),
\* the step delay, i++.
RetrySucceeds(e) ==
  /\ InStep(e)
  /\ LET x == executions[e]
     IN /\ x.retrying
        /\ executions' = [executions EXCEPT ![e] = [StepDelay(x, x.i) EXCEPT !.pc = "loop",
                            !.i = @ + 1, !.retrying = FALSE,
                            !.results = Append(@, Entry(x.i, "retried")),
                            !.trace = Append(@, Did(x.i, "retried"))]]
  /\ UNCHANGED <<program, now, engineVars, clientVars, bucketVars, cacheOpVars,
                 retry, workflow, activeWorkflows, handlerVars>>

\* retryStep: executeStep throws again; the loop waits 2^i * 1000 ms for its
\* next pass, or after maxRetries passes throws lastError out of
\* executeWorkflow's catch block.
RetryFails(e) ==
  /\ program = "ServiceWorker"
  /\ executions[e].pc = "step"
  /\ LET x == executions[e]
         failed == [x EXCEPT !.retryI = @ + 1, !.trace = Append(@, Did(x.i, "retryError"))]
     IN /\ x.retrying
        /\ IF RetryBudgetLeft(x.retryI, StepMaxRetries)
           THEN executions' = [executions EXCEPT ![e] = [failed EXCEPT !.pc = "retryWait",
                                 !.waits = Append(@, BackoffDelay(x.retryI + 1))]]
           ELSE executions' = [executions EXCEPT ![e] = [failed EXCEPT !.pc = "failed",
                                 !.run = "threw", !.error = "StepError"]]
  /\ UNCHANGED <<program, now, engineVars, clientVars, bucketVars, cacheOpVars,
                 retry, workflow, activeWorkflows, handlerVars>>

\* executeWorkflow: the for loop is over, return { executionId, results, errors,
\* duration } to handleExecuteWorkflow.
ReturnResult(e) ==
  /\ program = "ServiceWorker"
  /\ executions[e].pc = "loop"
  /\ executions[e].i = Len(workflow)
  /\ executions' = [executions EXCEPT ![e] = [@ EXCEPT !.pc = "feedback", !.run = "returned"]]
  /\ UNCHANGED <<program, now, engineVars, clientVars, bucketVars, cacheOpVars,
                 retry, workflow, activeWorkflows, handlerVars>>

\* handleExecuteWorkflow, after executeWorkflow returned:
\* trainingSystem.recordFeedback(workflowId, { rating: 5, executionTime,
\* resourceUsage: estimateResourceUsage(execution) }).  estimateResourceUsage
\* reads process.memoryUsage, a ReferenceError where process is not defined;
\* recordFeedback evaluates feedback.rating <= 2 || feedback.corrections.length
\* > 0 on a feedback without corrections, a TypeError.  Either way the try
\* block throws before `return result`.
RecordSuccess(e, processDefined) ==
  /\ program = "ServiceWorker"
  /\ executions[e].pc = "feedback"
  /\ executions' = [executions EXCEPT ![e] = [@ EXCEPT !.pc = "failed",
                      !.error = IF processDefined THEN "TypeError" ELSE "ReferenceError"]]
  /\ UNCHANGED <<program, now, engineVars, clientVars, bucketVars, cacheOpVars,
                 retry, workflow, activeWorkflows, handlerVars>>

\* handleExecuteWorkflow, catch (error): recordFeedback(workflowId, { rating: 1,
\* ... failedStep: execution.currentStep }), then throw error, or what
\* recordFeedback threw; finally activeWorkflows.delete(execution.id).
RecordFailure(e, feedbackOk) ==
  /\ program = "ServiceWorker"
  /\ executions[e].pc = "failed"
  /\ executions' = [executions EXCEPT ![e] = [@ EXCEPT !.pc = "thrown",
                      !.error = IF feedbackOk THEN @ ELSE "FeedbackError"]]
  /\ activeWorkflows' = RegistryDelete(activeWorkflows, executions[e].id)
  /\ UNCHANGED <<program, now, engineVars, clientVars, bucketVars, cacheOpVars,
                 retry, workflow, handlerVars>>

\* ------------------------------------------------ the programs, one call at a time
InitEngine ==
  /\ cache = <<>>
  /\ limiters = [p \in Providers |-> <<>>]
  /\ requests = [k \in MetricKeys |-> 0]
  /\ cacheHits = 0
  /\ latencies = <<>>
  /\ errors = [p \in Providers |-> <<>>]
  /\ calls = [c \in CallIds |-> IdleCall]
  /\ admitted = [p \in Providers |-> <<>>]
  /\ outcomes = [p \in Providers |-> [ok |-> 0, fail |-> 0]]
  /\ sent = [p \in Providers |-> <<>>]

InitClient ==
  /\ initialized = FALSE
  /\ buckets = SetupRateLimiters(0)
  /\ storedKeys = {}
  /\ memoryCache = [k \in ClientKeySet |-> NoEntry]
  /\ storage = [k \in ClientKeySet |-> NoEntry]
  /\ request = IdleRequest

NoWritten == [data |-> 0, at |-> 0, live |-> FALSE, touched |-> FALSE]

NoOp == [op |-> "none", key |-> <<>>, data |-> 0, hit |-> FALSE, at |-> 0,
         sizeBefore |-> 0, wasStored |-> FALSE, oldest |-> <<>>, evicted |-> {},
         evictedTouched |-> FALSE]

\* The keys the cache operations are tried with: getCacheKey of the requests
\* that name no provider the engine does not know.
CacheKeyInputs == {e[2] : e \in {f \in WorkflowKeys : f[1][2] # "openai"}}

ExecIds == 1..MaxExecutions

\* ------------------------------------------------------------- conditions
\* evaluateCondition and resolveValue of the service worker.  A JavaScript
\* value is undefined, null, a number, a string or an object; a throw is
\* carried as a value of kind "throw" up to the catch that handles it.
JsUndefined == [kind |-> "undefined", n |-> 0, s |-> ""]

JsNull == [kind |-> "null", n |-> 0, s |-> ""]

JsNumber(k) == [kind |-> "number", n |-> k, s |-> ""]

JsString(t) == [kind |-> "string", n |-> 0, s |-> t]

JsObject == [kind |-> "object", n |-> 0, s |-> ""]

JsThrow(name) == [kind |-> "throw", n |-> 0, s |-> name]

\* The strings that are compared, in the order of their UTF-16 code units.
StringOrder == <<"(", "5", "7", "abc", "b", "null", "undefined">>

\* value.substring(1).split('.') of the strings that start with '$'.
DollarPaths ==
  {<<"$data.value", <<"data", "value">> >>, <<"$data.missing", <<"data", "missing">> >>,
   <<"$gone.value", <<"gone", "value">> >>, <<"$empty.value", <<"empty", "value">> >>}

StartsWithDollar(t) == \E d \in DollarPaths : d[1] = t

Split(t) == (CHOOSE d \in DollarPaths : d[1] = t)[2]

\* A context as the set of its property paths with the value found there.
ContextInputs ==
  {{<<<<"data">>, JsObject>>, <<<<"data", "value">>, JsNumber(5)>>, <<<<"empty">>, JsNull>>},
   {<<<<"data">>, JsObject>>, <<<<"data", "value">>, JsString("abc")>>},
   {<<<<"empty">>, JsObject>>}}

\* object[key], for the object found at a path of the context.
Property(context, at, key) ==
  IF \E b \in context : b[1] = Append(at, key)
  THEN (CHOOSE b \in context : b[1] = Append(at, key))[2]
  ELSE JsUndefined

\* resolveValue, the for loop over the path: result = result[key];
\* if (result === undefined) break.  Reading a property of null throws a
\* TypeError, reading one of a number or a string that has none gives undefined.
RECURSIVE ResolvePath(_, _, _, _)
ResolvePath(context, path, k, result) ==
  IF k > Len(path) THEN result
  ELSE IF result.kind \in {"null", "undefined"} THEN JsThrow("TypeError")
  ELSE LET next == IF result.kind = "object"
                   THEN Property(context, SubSeq(path, 1, k - 1), path[k])
                   ELSE JsUndefined
       IN IF next.kind = "undefined" THEN next
          ELSE ResolvePath(context, path, k + 1, next)

\* resolveValue
ResolveValue(value, context) ==
  IF value.kind = "string" /\ StartsWithDollar(value.s)
  THEN ResolvePath(context, Split(value.s), 1, JsObject)
  ELSE value

\* String(value)
StringOf(v) ==
  CASE v.kind = "undefined" -> "undefined"
    [] v.kind = "null" -> "null"
    [] v.kind = "number" -> IF v.n = 5 THEN "5" ELSE "7"
    [] OTHER -> v.s

\* Number(value): NaN for undefined and for the strings that are no numerals.
IsNaN(v) == v.kind = "undefined" \/ (v.kind = "string" /\ v.s # "5")

ToNumber(v) ==
  CASE v.kind = "number" -> v.n
    [] v.kind = "string" /\ v.s = "5" -> 5
    [] OTHER -> 0

Rank(t) == CHOOSE k \in 1..Len(StringOrder) : StringOrder[k] = t

\* left == right: undefined and null equal each other and nothing else, a
\* number and a string are compared as numbers.
LooseEquals(a, b) ==
  CASE a.kind \in {"undefined", "null"} -> b.kind \in {"undefined", "null"}
    [] b.kind \in {"undefined", "null"} -> FALSE
    [] a.kind = "string" /\ b.kind = "string" -> a.s = b.s
    [] OTHER -> ~IsNaN(a) /\ ~IsNaN(b) /\ ToNumber(a) = ToNumber(b)

\* left < right: two strings by code units, anything else as numbers, false
\* when either is NaN.
LessThan(a, b) ==
  IF a.kind = "string" /\ b.kind = "string" THEN Rank(a.s) < Rank(b.s)
  ELSE ~IsNaN(a) /\ ~IsNaN(b) /\ ToNumber(a) < ToNumber(b)

\* left <= right
LessOrEqual(a, b) ==
  IF a.kind = "string" /\ b.kind = "string" THEN Rank(a.s) <= Rank(b.s)
  ELSE ~IsNaN(a) /\ ~IsNaN(b) /\ ToNumber(a) <= ToNumber(b)

\* haystack.includes(needle), for the strings above.
Includes(haystack, needle) ==
  \/ haystack = needle
  \/ <<haystack, needle>> \in {<<"abc", "b">>}

\* new RegExp(pattern): '(' is no regular expression, a SyntaxError.
InvalidRegExp(v) == v.kind = "string" /\ v.s = "("

\* new RegExp(pattern).test(value): new RegExp(undefined) is the empty pattern,
\* which every string matches; the other patterns here match as substrings.
RegExpTest(pattern, v) ==
  \/ pattern.kind = "undefined"
  \/ Includes(StringOf(v), StringOf(pattern))

Returned(b) == [threw |-> FALSE, value |-> b]

Threw == [threw |-> TRUE, value |-> FALSE]

\* evaluateCondition, the body of its try block.  Destructuring null or
\* undefined throws; destructuring a primitive leaves left, operator and right
\* undefined.
ConditionBody(condition, context) ==
  IF condition.shape \in {"null", "undefined"} THEN Threw
  ELSE LET left == IF condition.shape = "object" THEN condition.left ELSE JsUndefined
           right == IF condition.shape = "object" THEN condition.right ELSE JsUndefined
           operator == IF condition.shape = "object" THEN condition.operator ELSE "undefined"
           leftValue == ResolveValue(left, context)
           rightValue == ResolveValue(right, context)
       IN IF leftValue.kind = "throw" \/ rightValue.kind = "throw" THEN Threw
          ELSE CASE operator = "==" -> Returned(LooseEquals(leftValue, rightValue))
                 [] operator = "!=" -> Returned(~LooseEquals(leftValue, rightValue))
                 [] operator = ">" -> Returned(LessThan(rightValue, leftValue))
                 [] operator = "<" -> Returned(LessThan(leftValue, rightValue))
                 [] operator = ">=" -> Returned(LessOrEqual(rightValue, leftValue))
                 [] operator = "<=" -> Returned(LessOrEqual(leftValue, rightValue))
                 [] operator = "contains" ->
                      Returned(Includes(StringOf(leftValue), StringOf(rightValue)))
                 [] operator = "matches" ->
                      IF InvalidRegExp(rightValue) THEN Threw
                      ELSE Returned(RegExpTest(rightValue, leftValue))
                 [] OTHER -> Returned(TRUE)

\* evaluateCondition with no try around its body.
EvaluateConditionUncaught(condition, context) == ConditionBody(condition, context)

\* evaluateCondition: try { ... } catch (error) { return false }
EvaluateCondition(condition, context) ==
  IF ConditionBody(condition, context).threw THEN Returned(FALSE)
  ELSE ConditionBody(condition, context)

\* The operands a condition may name: literals and '$' paths.
OperandInputs ==
  {JsUndefined, JsNull, JsNumber(5), JsNumber(7), JsString("abc"), JsString("b"),
   JsString("(")} \cup {JsString(d[1]) : d \in DollarPaths}

OperatorInputs == {"==", "!=", ">", "<", ">=", "<=", "contains", "matches", "~", "undefined"}

\* The conditions a step may carry: null, undefined, a primitive, or an object
\* with whatever left, operator and right it has.
ConditionValues ==
  {[shape |-> h, left |-> JsUndefined, operator |-> "undefined", right |-> JsUndefined] :
     h \in {"null", "undefined", "primitive"}}
  \cup
  {[shape |-> "object", left |-> l, operator |-> o, right |-> r] :
     l \in OperandInputs, o \in OperatorInputs, r \in OperandInputs}

IdleEvaluation ==
  [pc |-> "idle", condition |-> [shape |-> "null", left |-> JsUndefined,
   operator |-> "undefined", right |-> JsUndefined], context |-> {}, result |-> Returned(FALSE)]

\* evaluateCondition(condition, context) is called and returns or throws.
CallEvaluateCondition ==
  /\ program = "ServiceWorker"
  /\ evaluation.pc = "called"
  /\ evaluation' = [evaluation EXCEPT !.pc = "done",
                      !.result = EvaluateCondition(evaluation.condition, evaluation.context)]
  /\ UNCHANGED <<program, now, engineVars, clientVars, bucketVars, cacheOpVars, workerVars,
                 stepDelay, service, generation, errorHandling, race>>

\* ------------------------------------------------------ GENERATE_WORKFLOW
\* handleGenerateWorkflow of the service worker with the WorkflowGenerator
\* behind it.  A workflow is kept as the sequence of its steps, a step as its
\* id and type; an id is a string, "null", or "absent" when the step has no
\* such property.  The template or the provider's answer a workflow was
\* generated from is kept with it.
WorkflowStep(id, type) == [id |-> id, type |-> type]

\* `step_${i + 1}`
DefaultStepId(i) == <<"step_1", "step_2", "step_3">>[i + 1]

\* WorkflowTemplates.loadBuiltInTemplates: the steps of web_scraping,
\* form_automation and api_integration.
BuiltInTemplates ==
  {<<WorkflowStep("absent", "navigate"), WorkflowStep("absent", "wait"),
     WorkflowStep("absent", "extract")>>,
   <<WorkflowStep("absent", "navigate"), WorkflowStep("absent", "input"),
     WorkflowStep("absent", "click")>>,
   <<WorkflowStep("absent", "api"), WorkflowStep("absent", "transform"),
     WorkflowStep("absent", "store")>>}

\* loadUserTemplates: a template the user stored, with step ids of its own.
UserTemplates == {<<WorkflowStep("step_1", "navigate"), WorkflowStep("step_2", "click")>>}

\* The steps of a provider's answer: each with the id the provider gave it, a
\* null id, or none.
ProviderStepIds == {"absent", "null", "step_1", "step_2"}

ProviderSteps ==
  UNION {[1..n -> {WorkflowStep(d, "click") : d \in ProviderStepIds}] : n \in 0..MaxSteps}

\* ensureWorkflowStructure, steps.map: { id: step.id || `step_${i + 1}`, ...,
\* ...step }.  The spread comes last, so a property the step has, null
\* included, replaces the default.
EnsureStep(step, i) ==
  WorkflowStep(IF step.id = "absent" THEN DefaultStepId(i) ELSE step.id, step.type)

EnsureWorkflowStructure(steps) == [k \in 1..Len(steps) |-> EnsureStep(steps[k], k - 1)]

\* generateFromTemplate: JSON.parse(JSON.stringify(template)); name, triggers
\* and variables are set, the steps are the template's.
GenerateFromTemplate(template) == template

\* validateAndOptimize: fixValidationIssues assigns the defaults of the missing
\* fields, [] for missing or empty steps; an 'invalid_step' issue (a step
\* without id) is reported by the validator and left as it is.
ValidateAndOptimize(steps) == IF Len(steps) = 0 THEN <<>> ELSE steps

\* createFallbackWorkflow
CreateFallbackWorkflow == <<WorkflowStep("step_1", "alert")>>

IdleGeneration ==
  [pc |-> "idle", given |-> <<>>, steps |-> <<>>, source |-> "none", failed |-> "none",
   stored |-> FALSE]

\* handleGenerateWorkflow: const { description, context = {} } = payload, before
\* the try; a payload that is undefined throws a TypeError there.
ReceiveGenerate(payloadDefined) ==
  /\ program = "ServiceWorker"
  /\ generation.pc = "idle"
  /\ generation' = IF payloadDefined THEN [generation EXCEPT !.pc = "match"]
                   ELSE [generation EXCEPT !.pc = "threw", !.failed = "payload"]
  /\ UNCHANGED <<program, now, engineVars, clientVars, bucketVars, cacheOpVars, workerVars,
                 stepDelay, service, evaluation, errorHandling, race>>

\* A catch that passes the error on.
FallbackRethrows(stage) == [generation EXCEPT !.pc = "threw", !.failed = stage]

\* catch (error): return createFallbackWorkflow(description)
Fallback(stage) ==
  [generation EXCEPT !.pc = "returned", !.steps = CreateFallbackWorkflow,
                     !.source = "fallback", !.failed = stage]

\* patternMatcher.match throws, or answers with a confidence above 0.85 and a
\* workflow (which is returned), or with less.
PatternMatch(answer, pattern) ==
  /\ program = "ServiceWorker"
  /\ generation.pc = "match"
  /\ generation' =
       CASE answer = "throws" -> Fallback("match")
         [] answer = "hit" -> [generation EXCEPT !.pc = "returned", !.steps = pattern,
                                                 !.source = "pattern"]
         [] OTHER -> [generation EXCEPT !.pc = "generate"]
  /\ UNCHANGED <<program, now, engineVars, clientVars, bucketVars, cacheOpVars, workerVars,
                 stepDelay, service, evaluation, errorHandling, race>>

\* generateFromDescription: templates.findBestMatch finds a template.
GenerateWithTemplate(template) ==
  /\ program = "ServiceWorker"
  /\ generation.pc = "generate"
  /\ generation' = [generation EXCEPT !.pc = "learn", !.source = "template",
                      !.given = template,
                      !.steps = ValidateAndOptimize(GenerateFromTemplate(template))]
  /\ UNCHANGED <<program, now, engineVars, clientVars, bucketVars, cacheOpVars, workerVars,
                 stepDelay, service, evaluation, errorHandling, race>>

\* generateFromDescription: no template, generateFromScratch asks the AI engine
\* and passes the answer through ensureWorkflowStructure.
GenerateFromScratch(answer) ==
  /\ program = "ServiceWorker"
  /\ generation.pc = "generate"
  /\ generation' = [generation EXCEPT !.pc = "learn", !.source = "provider",
                      !.given = answer,
                      !.steps = ValidateAndOptimize(EnsureWorkflowStructure(answer))]
  /\ UNCHANGED <<program, now, engineVars, clientVars, bucketVars, cacheOpVars, workerVars,
                 stepDelay, service, evaluation, errorHandling, race>>

\* generateFromDescription throws 'Failed to generate workflow': the providers
\* are exhausted, or the analysis throws.
GenerateFails ==
  /\ program = "ServiceWorker"
  /\ generation.pc = "generate"
  /\ generation' = Fallback("generate")
  /\ UNCHANGED <<program, now, engineVars, clientVars, bucketVars, cacheOpVars, workerVars,
                 stepDelay, service, evaluation, errorHandling, race>>

\* patternMatcher.learnPattern returns or throws.
LearnPattern(learned) ==
  /\ program = "ServiceWorker"
  /\ generation.pc = "learn"
  /\ generation' = IF learned THEN [generation EXCEPT !.pc = "store"] ELSE Fallback("learn")
  /\ UNCHANGED <<program, now, engineVars, clientVars, bucketVars, cacheOpVars, workerVars,
                 stepDelay, service, evaluation, errorHandling, race>>

\* storeWorkflow catches what chrome.storage.local.set throws; the handler
\* returns the workflow either way.
StoreWorkflow(storageOk) ==
  /\ program = "ServiceWorker"
  /\ generation.pc = "store"
  /\ generation' = [generation EXCEPT !.pc = "returned", !.stored = storageOk]
  /\ UNCHANGED <<program, now, engineVars, clientVars, bucketVars, cacheOpVars, workerVars,
                 stepDelay, service, evaluation, errorHandling, race>>

\* ------------------------------------------------------ the message listener
\* chrome.runtime.onMessage of the service worker with initialize and
\* processMessageQueue.  A request is known by its arrival number; its type is
\* one handleMessage knows or one it does not.
MessageTypes == {"GET_STATS", "UNKNOWN"}

\* serviceState after the script has loaded: nothing is initialized, and the
\* initialize() call at the end of the script is under way.
IdleService ==
  [initialized |-> FALSE, messageQueue |-> <<>>, inits |-> 1, types |-> <<>>,
   handling |-> {}, dispatched |-> <<>>, responses |-> <<>>, events |-> 0]

\* handleMessage(request, sender) is called for the requests of a sequence.
Dispatch(sv, ids) ==
  [sv EXCEPT !.handling = @ \cup {ids[k] : k \in 1..Len(ids)}, !.dispatched = @ \o ids]

\* The onMessage listener: before initialisation the request is queued and
\* initialize() is called; afterwards handleMessage is called.
ReceiveMessage(type) ==
  /\ program = "ServiceWorker"
  /\ Len(service.types) < MaxMessages
  /\ LET id == Len(service.types) + 1
         received == [service EXCEPT !.types = Append(@, type)]
     IN service' = IF ~service.initialized
                   THEN [received EXCEPT !.messageQueue = Append(@, id), !.inits = @ + 1]
                   ELSE Dispatch(received, <<id>>)
  /\ UNCHANGED <<program, now, engineVars, clientVars, bucketVars, cacheOpVars, workerVars,
                 stepDelay, generation, evaluation, errorHandling, race>>

\* chrome.runtime.onInstalled and onStartup: each listener calls initialize(),
\* whatever serviceState.initialized is.
RuntimeEvent ==
  /\ program = "ServiceWorker"
  /\ service.events < MaxEvents
  /\ service' = [service EXCEPT !.events = @ + 1, !.inits = @ + 1]
  /\ UNCHANGED <<program, now, engineVars, clientVars, bucketVars, cacheOpVars, workerVars,
                 stepDelay, generation, evaluation, errorHandling, race>>

\* initialize, the end of its try block: serviceState.initialized = true and
\* processMessageQueue(), which shifts every queued request and calls
\* handleMessage for it.
InitializeSucceeds ==
  /\ program = "ServiceWorker"
  /\ service.inits > 0
  /\ service' = [Dispatch(service, service.messageQueue) EXCEPT
                   !.initialized = TRUE, !.messageQueue = <<>>, !.inits = @ - 1]
  /\ UNCHANGED <<program, now, engineVars, clientVars, bucketVars, cacheOpVars, workerVars,
                 stepDelay, generation, evaluation, errorHandling, race>>

\* initialize, catch (error): serviceState.initialized = false; return false.
InitializeFails ==
  /\ program = "ServiceWorker"
  /\ service.inits > 0
  /\ service' = [service EXCEPT !.initialized = FALSE, !.inits = @ - 1]
  /\ UNCHANGED <<program, now, engineVars, clientVars, bucketVars, cacheOpVars, workerVars,
                 stepDelay, generation, evaluation, errorHandling, race>>

\* handleMessage resolves: sendResponse({ success: true, data: response }).
HandlerReturns(id) ==
  /\ program = "ServiceWorker"
  /\ id \in service.handling
  /\ service.types[id] # "UNKNOWN"
  /\ service' = [service EXCEPT !.handling = @ \ {id},
                                !.responses = Append(@, <<id, "success">>)]
  /\ UNCHANGED <<program, now, engineVars, clientVars, bucketVars, cacheOpVars, workerVars,
                 stepDelay, generation, evaluation, errorHandling, race>>

\* handleMessage rejects, for a type it does not know with 'Unknown message
\* type': sendResponse({ success: false, error: error.message }).
HandlerThrows(id) ==
  /\ program = "ServiceWorker"
  /\ id \in service.handling
  /\ service' = [service EXCEPT !.handling = @ \ {id},
                                !.responses = Append(@, <<id, "error">>)]
  /\ UNCHANGED <<program, now, engineVars, clientVars, bucketVars, cacheOpVars, workerVars,
                 stepDelay, generation, evaluation, errorHandling, race>>

\* ------------------------------------- DataStorageManager, calls side by side
\* getSecure and setSecure of one key running side by side, as two
\* generateWorkflow calls make them through getCachedApiResponse and
\* cacheApiResponse.  chrome.storage.local takes the operations in the order
\* they are issued; an operation completes and its callback runs in one step.
RaceKey == ClientCacheKey(<<65, 97>>, "null")

\* An operation handed to chrome.storage.local: get, set with the entry to
\* write, or remove.
StorageOp(op, entry) == [op |-> op, entry |-> entry]

IdleRace == [reads |-> 0, writes |-> 0, pending |-> <<>>]

RaceTick ==
  /\ program = "DataStorage"
  /\ now < MaxRaceTime
  /\ now' = now + 1
  /\ UNCHANGED <<program, engineVars, clientVars, bucketVars, cacheOpVars, workerVars, handlerVars>>

\* getSecure(key), up to chrome.storage.local.get: a fresh memory entry is
\* returned; an expired one is deleted and the storage is asked.
GetSecureBegin ==
  /\ program = "DataStorage"
  /\ race.reads < MaxReads
  /\ IF MemoryFresh(memoryCache, RaceKey, now)
     THEN /\ race' = [race EXCEPT !.reads = @ + 1]
          /\ UNCHANGED memoryCache
     ELSE /\ race' = [race EXCEPT !.reads = @ + 1,
                                  !.pending = Append(@, StorageOp("get", NoEntry))]
          /\ memoryCache' = [memoryCache EXCEPT ![RaceKey] = NoEntry]
  /\ UNCHANGED <<program, now, engineVars, initialized, buckets, storedKeys, storage, request,
                 bucketVars, cacheOpVars, workerVars, stepDelay, service, generation,
                 evaluation, errorHandling>>

\* cacheApiResponse(endpoint, params, response): expiresAt = Date.now() + ttlMs,
\* then setSecure up to chrome.storage.local.set.
SetSecureBegin ==
  /\ program = "DataStorage"
  /\ race.writes < MaxWrites
  /\ race' = [race EXCEPT !.writes = @ + 1,
                !.pending = Append(@, StorageOp("set",
                   [value |-> <<"response", race.writes + 1>>,
                    expiresAt |-> now + StorageExpiry]))]
  /\ UNCHANGED <<program, now, engineVars, clientVars, bucketVars, cacheOpVars, workerVars,
                 stepDelay, service, generation, evaluation, errorHandling>>

\* The oldest pending operation, of the kind given.
RaceHead(op) ==
  /\ program = "DataStorage"
  /\ race.pending # <<>>
  /\ Head(race.pending).op = op

\* The callback of chrome.storage.local.get in getSecure: nothing stored
\* resolves the default; an expired entry makes it call this.remove(key), which
\* hands chrome.storage.local.remove to the storage, and resolve the default; a
\* fresh entry is copied to the memory cache.  With lastError set it rejects.
GetCompletes(ok) ==
  /\ RaceHead("get")
  /\ LET stored == storage[RaceKey]
         rest == Tail(race.pending)
     IN IF ~ok \/ stored = NoEntry
        THEN /\ race' = [race EXCEPT !.pending = rest]
             /\ UNCHANGED memoryCache
        ELSE IF now > stored.expiresAt
        THEN /\ race' = [race EXCEPT !.pending = Append(rest, StorageOp("remove", NoEntry))]
             /\ UNCHANGED memoryCache
        ELSE /\ race' = [race EXCEPT !.pending = rest]
             /\ memoryCache' = [memoryCache EXCEPT ![RaceKey] = stored]
  /\ UNCHANGED <<program, now, engineVars, initialized, buckets, storedKeys, storage, request,
                 bucketVars, cacheOpVars, workerVars, stepDelay, service, generation,
                 evaluation, errorHandling>>

\* The callback of chrome.storage.local.set in setSecure: the entry is stored
\* and this.memoryCache.set(key, ...) follows; with lastError set nothing is
\* written.
SetCompletes(ok) ==
  /\ RaceHead("set")
  /\ race' = [race EXCEPT !.pending = Tail(@)]
  /\ storage' = IF ok THEN [storage EXCEPT ![RaceKey] = Head(race.pending).entry] ELSE storage
  /\ memoryCache' = IF ok THEN [memoryCache EXCEPT ![RaceKey] = Head(race.pending).entry]
                    ELSE memoryCache
  /\ UNCHANGED <<program, now, engineVars, initialized, buckets, storedKeys, request,
                 bucketVars, cacheOpVars, workerVars, stepDelay, service, generation,
                 evaluation, errorHandling>>

\* The callback of chrome.storage.local.remove in remove(key): whatever the key
\* holds is removed and this.memoryCache.delete(key) follows; with lastError
\* set nothing is removed.
RemoveCompletes(ok) ==
  /\ RaceHead("remove")
  /\ race' = [race EXCEPT !.pending = Tail(@)]
  /\ storage' = IF ok THEN [storage EXCEPT ![RaceKey] = NoEntry] ELSE storage
  /\ memoryCache' = IF ok THEN [memoryCache EXCEPT ![RaceKey] = NoEntry] ELSE memoryCache
  /\ UNCHANGED <<program, now, engineVars, initialized, buckets, storedKeys, request,
                 bucketVars, cacheOpVars, workerVars, stepDelay, service, generation,
                 evaluation, errorHandling>>

InitExecutor ==
  /\ retry = IdleRetry
  /\ executions = [e \in ExecIds |-> IdleExecution]
  /\ activeWorkflows = {}
  /\ service = IdleService
  /\ generation = IdleGeneration
  /\ race = IdleRace

InitWorker ==
  /\ InitExecutor
  /\ workflow = <<>>
  /\ stepDelay = 0
  /\ errorHandling = "none"
  /\ evaluation = IdleEvaluation

InitOther ==
  /\ limiter = CreateRateLimiter(1, 1, 0)
  /\ grants = <<>>
  /\ lastOp = NoOp
  /\ written = [k \in CacheKeyInputs |-> NoWritten]
  /\ stamps = [k \in CacheKeyInputs |-> 0]
  /\ ops = 0

Init ==
  /\ program \in {"AIEngine", "APIClient"}
  /\ now = 0
  /\ apiKeys = {}
  /\ InitEngine
  /\ InitClient
  /\ InitOther
  /\ InitWorker

\* The engine with at most one call pending at a time.
OneAtATime == {1}

\* The prompt the client is called with.
ClientPrompts == {<<65, 97>>}

\* A key a user may save.
KeyInputs == {"key"}

Next ==
  \/ Tick
  \/ \E p \in Providers, key \in KeyInputs : SetAPIKey(p, key)
  \/ \E c \in OneAtATime, prompt \in Prompts, preferred \in PreferredInputs :
       GenerateCached(c, prompt, preferred)
  \/ \E c \in OneAtATime, prompt \in Prompts, preferred \in PreferredInputs :
       GenerateStart(c, prompt, preferred)
  \/ \E c \in OneAtATime : SkipRateLimited(c)
  \/ \E c \in OneAtATime : SkipUnconfigured(c)
  \/ \E c \in OneAtATime : Invoke(c)
  \/ \E c \in OneAtATime : Exhausted(c)
  \/ \E c \in OneAtATime : AttemptSucceeds(c)
  \/ \E c \in OneAtATime, msg \in ErrorMessages : AttemptFails(c, msg)
  \/ \E c \in OneAtATime : BackoffDone(c)
  \/ ClearCache
  \/ \E p \in Providers : ClientSetApiKey(p)
  \/ \E prompt \in ClientPrompts, preferred \in PreferredInputs : ClientGenerateCached(prompt, preferred)
  \/ \E prompt \in ClientPrompts, preferred \in PreferredInputs, readOk \in BOOLEAN, removeOk \in BOOLEAN :
       ClientGenerateStart(prompt, preferred, readOk, removeOk)
  \/ ClientRateLimited
  \/ ClientNoKey
  \/ ClientSend
  \/ \E writeOk \in BOOLEAN : ClientSucceeds(writeOk)
  \/ \E response \in ClientFailures : ClientFails(response)
  \/ ClientBackoffDone
  \/ ClientExhausted

Spec == Init /\ [][Next]_vars

\* ------------------------------------------- the engine, concurrent calls
\* loadAPIKeys has given every provider its key.
InitConc ==
  /\ program = "AIEngine"
  /\ now = 0
  /\ apiKeys = Providers
  /\ InitEngine
  /\ InitClient
  /\ InitOther
  /\ InitWorker

\* What the concurrent callers ask for.
ConcPrompts == {<<65, 97>>}

ConcPreferred == {"null", "huggingface"}

ConcErrors == {"Request timeout"}

NextConc ==
  \/ Tick
  \/ \E c \in CallIds, prompt \in ConcPrompts, preferred \in ConcPreferred :
       GenerateCached(c, prompt, preferred)
  \/ \E c \in CallIds, prompt \in ConcPrompts, preferred \in ConcPreferred :
       GenerateStart(c, prompt, preferred)
  \/ \E c \in CallIds : SkipRateLimited(c)
  \/ \E c \in CallIds : Invoke(c)
  \/ \E c \in CallIds : Exhausted(c)
  \/ \E c \in CallIds : AttemptSucceeds(c)
  \/ \E c \in CallIds, msg \in ConcErrors : AttemptFails(c, msg)
  \/ \E c \in CallIds : BackoffDone(c)

SpecConc == InitConc /\ [][NextConc]_vars

\* The engine's own steps for a call: what follows an await once it settles,
\* and the timers of timeout() and delay() firing.  An attempt whose operation
\* never settles ends when timeout() rejects.
EngineStep(c) ==
  \/ SkipRateLimited(c)
  \/ Invoke(c)
  \/ Exhausted(c)
  \/ AttemptFails(c, "Request timeout")
  \/ BackoffDone(c)

SpecTimeout == InitConc /\ [][NextConc]_vars /\ \A c \in CallIds : WF_vars(EngineStep(c))

\* ------------------------------------------------------- a token bucket
InitBucket ==
  /\ program = "SecurityManager"
  /\ now = 0
  /\ apiKeys = {}
  /\ InitEngine
  /\ InitClient
  /\ \E maxRequests \in 1..MaxTokens, windowMs \in 1..MaxWindow :
       limiter = CreateRateLimiter(maxRequests, windowMs, 0)
  /\ grants = <<>>
  /\ lastOp = NoOp
  /\ written = [k \in CacheKeyInputs |-> NoWritten]
  /\ stamps = [k \in CacheKeyInputs |-> 0]
  /\ ops = 0
  /\ InitWorker

BucketTick ==
  /\ now < MaxBucketTime
  /\ now' = now + 1
  /\ UNCHANGED <<program, engineVars, clientVars, bucketVars, cacheOpVars, workerVars, handlerVars>>

\* limiter.canMakeRequest()
LimiterRequest ==
  /\ Len(grants) < MaxBucketRequests
  /\ limiter' = BucketAfterRequest(limiter, now)
  /\ grants' = Append(grants, [at |-> now, granted |-> BucketCanMakeRequest(limiter, now)])
  /\ UNCHANGED <<program, now, engineVars, clientVars, cacheOpVars, workerVars, handlerVars>>

NextBucket == BucketTick \/ LimiterRequest

SpecBucket == InitBucket /\ [][NextBucket]_vars

\* ---------------------------------------------------- the response cache
\* What setCache is given to store.
CacheData == {1, 2}

InitCache ==
  /\ program = "AIEngine"
  /\ now = 0
  /\ apiKeys = {}
  /\ InitEngine
  /\ InitClient
  /\ InitOther
  /\ InitWorker

CacheTick ==
  /\ now < MaxCacheTime
  /\ now' = now + 1
  /\ UNCHANGED <<program, engineVars, clientVars, bucketVars, cacheOpVars, workerVars, handlerVars>>

\* The stored key that was inserted first, by the operation numbers.
OldestKey(c) ==
  IF c = <<>> THEN <<>>
  ELSE CHOOSE k \in CacheKeys(c) : \A other \in CacheKeys(c) : stamps[k] <= stamps[other]

\* this.getFromCache(key)
GetFromCache(key) ==
  /\ ops < MaxCacheOps
  /\ ops' = ops + 1
  /\ cache' = CacheAfterGet(cache, key, now)
  /\ lastOp' = [NoOp EXCEPT !.op = "get", !.key = key, !.at = now,
                  !.hit = CacheFresh(cache, key, now),
                  !.data = IF CacheFresh(cache, key, now) THEN CacheEntry(cache, key).data ELSE 0,
                  !.sizeBefore = Len(cache), !.wasStored = CacheHas(cache, key)]
  /\ written' = IF CacheFresh(cache, key, now)
                THEN [written EXCEPT ![key].touched = TRUE]
                ELSE written
  /\ stamps' = IF CacheHas(cache', key) THEN stamps ELSE [stamps EXCEPT ![key] = 0]
  /\ UNCHANGED <<program, now, apiKeys, limiters, requests, cacheHits, latencies, errors,
                 calls, admitted, outcomes, clientVars, bucketVars, workerVars, handlerVars,
                 sent>>

\* this.setCache(key, data)
PutInCache(key, data) ==
  /\ ops < MaxCacheOps
  /\ ops' = ops + 1
  /\ cache' = SetCache(cache, key, data, now)
  /\ LET evicted == (CacheKeys(cache) \ CacheKeys(cache')) \ {key}
     IN /\ lastOp' = [NoOp EXCEPT !.op = "put", !.key = key, !.at = now, !.data = data,
                        !.sizeBefore = Len(cache), !.wasStored = CacheHas(cache, key),
                        !.oldest = OldestKey(cache), !.evicted = evicted,
                        !.evictedTouched = \E k \in evicted : written[k].touched]
        /\ written' = [k \in CacheKeyInputs |->
                         IF k = key
                         THEN [data |-> data, at |-> now, live |-> TRUE,
                               touched |-> CacheHas(cache, key)]
                         ELSE IF k \in evicted THEN [written[k] EXCEPT !.live = FALSE]
                         ELSE written[k]]
        /\ stamps' = [k \in CacheKeyInputs |->
                        IF k = key THEN (IF CacheHas(cache, key) THEN stamps[k] ELSE ops + 1)
                        ELSE IF k \in evicted THEN 0
                        ELSE stamps[k]]
  /\ UNCHANGED <<program, now, apiKeys, limiters, requests, cacheHits, latencies, errors,
                 calls, admitted, outcomes, clientVars, bucketVars, workerVars, handlerVars,
                 sent>>

NextCache ==
  \/ CacheTick
  \/ \E key \in CacheKeyInputs : GetFromCache(key)
  \/ \E key \in CacheKeyInputs, data \in CacheData : PutInCache(key, data)

SpecCache == InitCache /\ [][NextCache]_vars

\* ------------------------------------------------------- a retry loop
InitRetry ==
  /\ program = "RetryLoop"
  /\ now = 0
  /\ apiKeys = {}
  /\ InitEngine
  /\ InitClient
  /\ InitOther
  /\ InitWorker

RetryResponses == RetryFailures("provider") \cup RetryFailures("client")

NextRetry ==
  \/ \E maxRetries \in 1..MaxAttempts : ExecuteWithRetry(maxRetries)
  \/ RetryStep
  \/ MakeRequest
  \/ RetryAttemptSucceeds
  \/ \E response \in RetryResponses : RetryAttemptFails(response)
  \/ RetryWaitDone
  \/ CallerCancels
  \/ AbandonedSettles

SpecRetry == InitRetry /\ [][NextRetry]_vars

\* ---------------------------------------------- EXECUTE_WORKFLOW, one message
\* The workflows getStoredWorkflow may return.
Workflows == UNION {[1..n -> StepInputs] : n \in 0..MaxSteps}

\* The suffixes Math.random() contributes to the ids.
RandomSuffixes == 1..MaxExecutions

InitExec ==
  /\ program = "ServiceWorker"
  /\ now = 0
  /\ apiKeys = {}
  /\ InitEngine
  /\ InitClient
  /\ InitOther
  /\ InitExecutor
  /\ workflow \in Workflows
  /\ stepDelay = 0
  /\ errorHandling = "none"
  /\ evaluation = IdleEvaluation

OneExecution == {1}

NextExec ==
  \/ \E e \in OneExecution : WorkflowNotFound(e)
  \/ \E e \in OneExecution, suffix \in RandomSuffixes : BeginExecution(e, suffix)
  \/ \E e \in OneExecution : SkipStep(e)
  \/ \E e \in OneExecution : BeginStep(e)
  \/ \E e \in OneExecution : LoopIteration(e)
  \/ \E e \in OneExecution : InnerStepSucceeds(e)
  \/ \E e \in OneExecution : StepSucceeds(e)
  \/ \E e \in OneExecution : StepFailsAbort(e)
  \/ \E e \in OneExecution : StepFailsRetry(e)
  \/ \E e \in OneExecution : StepFailsContinue(e)
  \/ \E e \in OneExecution : RetryDelayDone(e)
  \/ \E e \in OneExecution : RetrySucceeds(e)
  \/ \E e \in OneExecution : RetryFails(e)
  \/ \E e \in OneExecution : ReturnResult(e)
  \/ \E e \in OneExecution, processDefined \in BOOLEAN : RecordSuccess(e, processDefined)
  \/ \E e \in OneExecution, feedbackOk \in BOOLEAN : RecordFailure(e, feedbackOk)

SpecExec == InitExec /\ [][NextExec]_vars

\* ------------------------------- EXECUTE_WORKFLOW, workflows with settings
\* workflow.settings?.stepDelay: no setting (0 stands for undefined) or a delay.
StepDelayInputs == {0, 500}

InitDelay ==
  /\ program = "ServiceWorker"
  /\ now = 0
  /\ apiKeys = {}
  /\ InitEngine
  /\ InitClient
  /\ InitOther
  /\ InitExecutor
  /\ workflow \in Workflows
  /\ stepDelay \in StepDelayInputs
  /\ errorHandling = "none"
  /\ evaluation = IdleEvaluation

SpecDelay == InitDelay /\ [][NextExec]_vars

\* ------------------------------------------- EXECUTE_WORKFLOW, a loop step
\* action.items of a loop step: the arrays of up to MaxItems items.
ItemInputs == UNION {[1..n -> {0, 1}] : n \in 0..MaxItems}

\* Loop steps of every error mode, over the items above and with up to
\* MaxInner inner steps, which declare no conditions or conditions that
\* evaluateConditions answers with false.
LoopSteps ==
  {[type |-> "loop", errorHandling |-> m, declared |-> FALSE, conditions |-> <<>>,
    storeAs |-> "none", variable |-> "item", items |-> it, steps |-> k,
    innerDeclared |-> d[1], innerConditions |-> d[2]] :
      m \in {"fail", "retry", "none"}, it \in ItemInputs, k \in 0..MaxInner,
      d \in {<<FALSE, <<>> >>, <<TRUE, <<TRUE, FALSE>> >>}}

\* A loop step followed by one more step of the outer sequence.
LoopWorkflows ==
  {<<l, c>> : l \in LoopSteps,
              c \in {t \in StepInputs : /\ t.type = "click"
                                        /\ t.storeAs = "none"
                                        /\ t.errorHandling = "none"
                                        /\ t.conditions \in {<<>>, <<TRUE, FALSE>>}}}

InitLoop ==
  /\ program = "ServiceWorker"
  /\ now = 0
  /\ apiKeys = {}
  /\ InitEngine
  /\ InitClient
  /\ InitOther
  /\ InitExecutor
  /\ workflow \in LoopWorkflows
  /\ stepDelay = 0
  /\ errorHandling = "none"
  /\ evaluation = IdleEvaluation

SpecLoop == InitLoop /\ [][NextExec]_vars

\* ------------------------------------------- GENERATE_WORKFLOW, one message
\* The workflows a learned pattern may carry.
PatternWorkflows == {<<>>, <<WorkflowStep("step_1", "click")>>}

InitGenerate ==
  /\ program = "ServiceWorker"
  /\ now = 0
  /\ apiKeys = {}
  /\ InitEngine
  /\ InitClient
  /\ InitOther
  /\ InitWorker

NextGenerate ==
  \/ \E payloadDefined \in BOOLEAN : ReceiveGenerate(payloadDefined)
  \/ \E answer \in {"throws", "hit", "miss"}, pattern \in PatternWorkflows :
       PatternMatch(answer, pattern)
  \/ \E template \in BuiltInTemplates \cup UserTemplates : GenerateWithTemplate(template)
  \/ \E answer \in ProviderSteps : GenerateFromScratch(answer)
  \/ GenerateFails
  \/ \E learned \in BOOLEAN : LearnPattern(learned)
  \/ \E storageOk \in BOOLEAN : StoreWorkflow(storageOk)

SpecGenerate == InitGenerate /\ [][NextGenerate]_vars

\* ------------------------------------------------- the listener, some messages
InitMessages ==
  /\ program = "ServiceWorker"
  /\ now = 0
  /\ apiKeys = {}
  /\ InitEngine
  /\ InitClient
  /\ InitOther
  /\ InitWorker

MessageIds == 1..MaxMessages

NextMessages ==
  \/ \E type \in MessageTypes : ReceiveMessage(type)
  \/ RuntimeEvent
  \/ InitializeSucceeds
  \/ InitializeFails
  \/ \E id \in MessageIds : HandlerReturns(id)
  \/ \E id \in MessageIds : HandlerThrows(id)

SpecMessages == InitMessages /\ [][NextMessages]_vars

\* ------------------------------------------------- generateWithGroq, some calls
InitProvider ==
  /\ program = "APIClient"
  /\ now = 0
  /\ apiKeys = {}
  /\ InitEngine
  /\ InitClient
  /\ InitOther
  /\ InitWorker

NextProvider ==
  \/ Tick
  \/ ClientSetApiKey("groq")
  \/ GroqRateLimited
  \/ GroqNoKey
  \/ GroqSend
  \/ GroqSucceeds
  \/ \E response \in ClientFailures : GroqFails(response)
  \/ ClientBackoffDone
  \/ GetRateLimiterStatus

SpecProvider == InitProvider /\ [][NextProvider]_vars

\* ------------------------------------------------- evaluateCondition, one call
InitCondition ==
  /\ program = "ServiceWorker"
  /\ now = 0
  /\ apiKeys = {}
  /\ InitEngine
  /\ InitClient
  /\ InitOther
  /\ InitExecutor
  /\ workflow = <<>>
  /\ stepDelay = 0
  /\ errorHandling = "none"
  /\ evaluation \in {[IdleEvaluation EXCEPT !.pc = "called", !.condition = c, !.context = x] :
                        c \in ConditionValues, x \in ContextInputs}

NextCondition == CallEvaluateCondition

SpecCondition == InitCondition /\ [][NextCondition]_vars

\* ------------------------------------- EXECUTE_WORKFLOW, concurrent messages
\* One-step workflows that store nothing on the execution context.
RegistryWorkflows ==
  {<<s>> : s \in {t \in StepInputs : /\ t.storeAs = "none"
                                     /\ t.variable = "item"
                                     /\ t.conditions \in {<<>>, <<TRUE, FALSE>>}}}

InitRegistry ==
  /\ program = "ServiceWorker"
  /\ now = 0
  /\ apiKeys = {}
  /\ InitEngine
  /\ InitClient
  /\ InitOther
  /\ InitExecutor
  /\ workflow \in RegistryWorkflows
  /\ stepDelay = 0
  /\ errorHandling = "none"
  /\ evaluation = IdleEvaluation

NextRegistry ==
  \/ \E e \in ExecIds : WorkflowNotFound(e)
  \/ \E e \in ExecIds, suffix \in RandomSuffixes : BeginExecution(e, suffix)
  \/ \E e \in ExecIds : SkipStep(e)
  \/ \E e \in ExecIds : BeginStep(e)
  \/ \E e \in ExecIds : LoopIteration(e)
  \/ \E e \in ExecIds : InnerStepSucceeds(e)
  \/ \E e \in ExecIds : StepSucceeds(e)
  \/ \E e \in ExecIds : StepFailsAbort(e)
  \/ \E e \in ExecIds : StepFailsRetry(e)
  \/ \E e \in ExecIds : StepFailsContinue(e)
  \/ \E e \in ExecIds : RetryDelayDone(e)
  \/ \E e \in ExecIds : RetrySucceeds(e)
  \/ \E e \in ExecIds : RetryFails(e)
  \/ \E e \in ExecIds : ReturnResult(e)
  \/ \E e \in ExecIds, processDefined \in BOOLEAN : RecordSuccess(e, processDefined)
  \/ \E e \in ExecIds, feedbackOk \in BOOLEAN : RecordFailure(e, feedbackOk)

SpecRegistry == InitRegistry /\ [][NextRegistry]_vars

\* ------------------------------------ EXECUTE_WORKFLOW, the workflow's policy
\* workflow.errorHandling of a stored workflow: absent, or the strategy it
\* names; ensureWorkflowStructure gives 'retry_then_fail' to a workflow that
\* declares none.
PolicyInputs == {"none", "fail", "retry", "retry_then_fail"}

InitPolicy ==
  /\ program = "ServiceWorker"
  /\ now = 0
  /\ apiKeys = {}
  /\ InitEngine
  /\ InitClient
  /\ InitOther
  /\ InitExecutor
  /\ workflow \in RegistryWorkflows
  /\ stepDelay = 0
  /\ errorHandling \in PolicyInputs
  /\ evaluation = IdleEvaluation

SpecPolicy == InitPolicy /\ [][NextExec]_vars

\* ------------------------------------- DataStorageManager, calls side by side
\* The entry an earlier cacheApiResponse stored, expired by now; the memory
\* cache holds its copy or, in a service worker started since, nothing.
ExpiredEntry == [value |-> <<"response", 0>>, expiresAt |-> 0]

InitRace ==
  /\ program = "DataStorage"
  /\ now = 1
  /\ apiKeys = {}
  /\ InitEngine
  /\ initialized = FALSE
  /\ buckets = SetupRateLimiters(0)
  /\ storedKeys = {}
  /\ storage = [k \in ClientKeySet |-> IF k = RaceKey THEN ExpiredEntry ELSE NoEntry]
  /\ \E copy \in {NoEntry, ExpiredEntry} :
       memoryCache = [k \in ClientKeySet |-> IF k = RaceKey THEN copy ELSE NoEntry]
  /\ request = IdleRequest
  /\ InitOther
  /\ InitWorker

NextRace ==
  \/ RaceTick
  \/ GetSecureBegin
  \/ SetSecureBegin
  \/ \E ok \in BOOLEAN : GetCompletes(ok)
  \/ \E ok \in BOOLEAN : SetCompletes(ok)
  \/ \E ok \in BOOLEAN : RemoveCompletes(ok)

SpecRace == InitRace /\ [][NextRace]_vars

\* ------------------------------------------------------------ properties
\* Positions of the events of one kind in a call's history.
EventsOf(t, kind) == {i \in 1..Len(t) : t[i].kind = kind}

\* The provider of the last event of one kind.
LastOf(t, kind) ==
  t[CHOOSE i \in EventsOf(t, kind) : \A j \in EventsOf(t, kind) : j <= i].p

\* recordRequest calls for provider p in the window that ends at time t.
WindowLoad(p, t) == Cardinality({i \in DOMAIN admitted[p] : t - admitted[p][i] < WindowMs})

\* A call that has succeeded has nothing after the success in its history, is
\* over, and returned the result of the provider that succeeded.
SuccessEndsCall(call) ==
  \A i \in EventsOf(call.trace, "ok") :
    /\ i = Len(call.trace)
    /\ call.pc = "done"
    /\ call.result.kind = "ok"
    /\ call.result.data[1] = call.trace[i].p

\* The step in which an AIEngine call returns a provider's result leaves it in
\* the cache under the call's key.
EngineSuccessCached ==
  \A c \in CallIds :
    (calls[c].pc = "inflight" /\ calls'[c].pc = "done") =>
      /\ CacheHas(cache', calls'[c].key)
      /\ CacheEntry(cache', calls'[c].key).data = calls'[c].result.data

ClientSuccessStep == request.pc = "inflight" /\ request'.pc = "done"

ClientStored ==
  /\ storage'[request'.key].value = request'.result.data
  /\ memoryCache'[request'.key].value = request'.result.data

\* C1 as the specification states it: as soon as a candidate succeeds its result
\* is returned, no later candidate is invoked, and the result is in the response
\* cache under the request's fingerprint, in AIEngine and in APIClient.
C1Stated ==
  [][/\ EngineSuccessCached
     /\ ClientSuccessStep => ClientStored
     /\ \A c \in CallIds : SuccessEndsCall(calls'[c])
     /\ SuccessEndsCall(request')]_vars

\* C1, amended: as soon as a candidate succeeds its result is returned and no
\* later candidate is invoked; AIEngine stores the result in its cache under the
\* request's key; APIClient stores it under the request's key when the write to
\* the storage succeeds, and leaves storage and memory cache as they were when
\* it fails.
C1FirstSuccess ==
  [][/\ EngineSuccessCached
     /\ ClientSuccessStep =>
          (ClientStored \/ (storage' = storage /\ memoryCache' = memoryCache))
     /\ \A c \in CallIds : SuccessEndsCall(calls'[c])
     /\ SuccessEndsCall(request')]_vars

\* An AIEngine call returned the result of its second candidate, after the first
\* one failed, and the result is in the cache under the call's key.
C1Witness ==
  \E c \in CallIds :
    /\ calls[c].pc = "done"
    /\ calls[c].result.kind = "ok"
    /\ calls[c].idx = 2
    /\ EventsOf(calls[c].trace, "fail") # {}
    /\ CacheHas(cache, calls[c].key)
    /\ CacheEntry(cache, calls[c].key).data = calls[c].result.data

\* The history of Scenario B: A is invoked, retried twice and fails, B is invoked
\* and succeeds at once.
ScenarioB(t, a, b) ==
  /\ Len(t) >= 6
  /\ SubSeq(t, Len(t) - 5, Len(t)) =
       <<Event(a, "invoke"), Event(a, "retry"), Event(a, "retry"), Event(a, "fail"),
         Event(b, "invoke"), Event(b, "ok")>>

\* C2 as the specification states it: when A fails on all 3 attempts, timing out,
\* and B then succeeds on its first call, generate returns B's result, surfaces no
\* error, and the metrics hold a failure recorded for A.
C2ScenarioB ==
  \A c \in CallIds, a \in Providers, b \in Providers :
    (/\ calls[c].pc = "done"
     /\ ScenarioB(calls[c].trace, a, b)
     /\ calls[c].lastError = [msg |-> "Request timeout", by |-> a])
    => /\ calls[c].result.kind = "ok"
       /\ calls[c].result.data[1] = b
       /\ calls[c].result.error = NullError
       /\ (requests[<<a, "failure">>] > 0 \/ errors[a] # <<>>)

\* The candidates of a call with a preferred provider: the preferred one, then
\* the others in the order `default` has them; and in the call's history an event
\* of another provider comes only after the preferred one was invoked or skipped.
PreferredLeads(call, default, firstKinds) ==
  /\ Len(call.providers) = Len(default)
  /\ SeqToSet(call.providers) = SeqToSet(default)
  /\ call.providers[1] = call.preferred
  /\ \A i \in 2..Len(default), j \in 2..Len(default) :
       i < j => IndexOf(default, call.providers[i]) < IndexOf(default, call.providers[j])
  /\ \A i \in 1..Len(call.trace) :
       call.trace[i].p # call.preferred =>
         \E j \in 1..(i - 1) :
           call.trace[j].p = call.preferred /\ call.trace[j].kind \in firstKinds

C4AggregatedFailure ==
  \A c \in CallIds :
    calls[c].pc = "done" =>
      /\ calls[c].result.kind \in {"ok", "cached", "AIEngineError"}
      /\ (calls[c].result.kind = "ok") = (EventsOf(calls[c].trace, "ok") # {})
      /\ calls[c].result.kind = "AIEngineError" =>
           IF EventsOf(calls[c].trace, "invoke") = {}
           THEN calls[c].result.error = [msg |-> "All AI providers failed", by |-> "none"]
           ELSE /\ calls[c].result.error.by = LastOf(calls[c].trace, "invoke")
                /\ calls[c].result.error.msg \in ErrorMessages

\* A call failed after two candidates were invoked and the last one was skipped:
\* the error is the second candidate's.
C4Witness ==
  \E c \in CallIds :
    /\ calls[c].pc = "done"
    /\ calls[c].result.kind = "AIEngineError"
    /\ Cardinality(EventsOf(calls[c].trace, "invoke")) = 2
    /\ calls[c].trace[Len(calls[c].trace)].kind \in {"skipRate", "skipKey"}
    /\ calls[c].result.error.by = LastOf(calls[c].trace, "invoke")

\* The step executeWithFallback takes with its current candidate: a candidate
\* without a key, or with a full window of recorded requests, is passed over
\* (nothing recorded, no attempt, lastError as it was, next candidate); any
\* other candidate is invoked.
CandidateStep(c) ==
  (Selecting(c) /\ calls'[c] # calls[c]) =>
    LET p == Candidate(c)
        denied == WindowLoad(p, now) >= RateLimitRequests(p)
        kind == calls'[c].trace[Len(calls'[c].trace)].kind
    IN IF denied \/ p \notin apiKeys
       THEN /\ kind = IF denied THEN "skipRate" ELSE "skipKey"
            /\ admitted' = admitted
            /\ calls'[c].pc = "select"
            /\ calls'[c].idx = calls[c].idx + 1
            /\ calls'[c].lastError = calls[c].lastError
       ELSE /\ kind = "invoke"
            /\ calls'[c].pc = "inflight"

\* A skipped provider has no other event in the call's history; with a single
\* provider holding a key only that provider is invoked and a result is its
\* result; the error of a failed call in which a candidate was invoked is that of
\* an invoked candidate.
SkipsStaySkipped(call) ==
  /\ \A i \in EventsOf(call.trace, "skipRate") \cup EventsOf(call.trace, "skipKey") :
       \A j \in 1..Len(call.trace) : j # i => call.trace[j].p # call.trace[i].p
  /\ \A a \in Providers :
       apiKeys = {a} =>
         /\ \A i \in EventsOf(call.trace, "invoke") : call.trace[i].p = a
         /\ call.result.kind = "ok" => call.result.data[1] = a
  /\ (call.result.kind = "AIEngineError" /\ EventsOf(call.trace, "invoke") # {}) =>
       \E i \in EventsOf(call.trace, "invoke") : call.result.error.by = call.trace[i].p

\* C5: a candidate whose rate limiter denies admission or whose key is missing
\* is never invoked or retried and the call goes on with the next candidate; with
\* only provider A holding a key only A is called and the result is A's; a skip is
\* never the error of a call in which some candidate was invoked.
C5SkippedNeverInvoked ==
  /\ [](\A c \in CallIds : SkipsStaySkipped(calls[c]))
  /\ [][\A c \in CallIds : CandidateStep(c)]_vars

\* Only huggingface holds a key: a call skipped groq, invoked huggingface and
\* returned its result.
C5Witness ==
  \E c \in CallIds :
    /\ apiKeys = {"huggingface"}
    /\ calls[c].pc = "done"
    /\ calls[c].trace =
         <<Event("groq", "skipKey"), Event("huggingface", "invoke"), Event("huggingface", "ok")>>
    /\ calls[c].result.data[1] = "huggingface"

\* C6 as the specification states it: with no preferred provider the candidates
\* are ordered by descending success rate computed from the outcomes of earlier
\* calls; when X only succeeded and Y only failed so far, X comes before Y.
C6OrderedBySuccessRate ==
  [][\A c \in CallIds :
       (/\ calls[c].pc \in {"idle", "done"}
        /\ calls'[c].pc = "select"
        /\ calls'[c].preferred \notin Providers) =>
         \A x \in Providers, y \in Providers :
           (/\ outcomes[x].ok > 0
            /\ outcomes[x].fail = 0
            /\ outcomes[y].fail > 0
            /\ outcomes[y].ok = 0) =>
             IndexOf(calls'[c].providers, x) < IndexOf(calls'[c].providers, y)]_vars

\* canMakeRequest() calls up to the j-th that were granted less than one window
\* before the j-th.
GrantsInWindow(j) ==
  {k \in 1..j : grants[k].granted /\ grants[j].at - grants[k].at < limiter.windowMs}

\* C7 as the specification states it: after C granted admissions the (C+1)th
\* request within the same window is denied, however the requests are spaced, so
\* that no window holds more than C granted requests.
C7Stated ==
  \A j \in DOMAIN grants :
    grants[j].granted => Cardinality(GrantsInWindow(j)) <= limiter.maxTokens

\* C7, amended: the (C+1)th request is denied when it comes with no time passed
\* since C granted requests (back to back, as the test makes them), and no more
\* than C requests are granted while less than W/C has passed since the limiter
\* was created; tokens refilled inside the window are granted, up to 2C granted
\* requests within one window length.
C7TokenBucket ==
  /\ \A j \in DOMAIN grants :
       (/\ j > limiter.maxTokens
        /\ \A k \in (j - limiter.maxTokens)..(j - 1) :
             grants[k].granted /\ grants[k].at = grants[j].at)
       => ~grants[j].granted
  /\ Cardinality({k \in DOMAIN grants :
                    grants[k].granted /\ grants[k].at * limiter.maxTokens < limiter.windowMs})
       <= limiter.maxTokens
  /\ \A j \in DOMAIN grants :
       grants[j].granted => Cardinality(GrantsInWindow(j)) <= 2 * limiter.maxTokens

\* A limiter of capacity 2 granted two requests and denied the third at one
\* instant, after its creation.
C7Witness ==
  /\ limiter.maxTokens = 2
  /\ \E j \in DOMAIN grants :
       /\ j > 2
       /\ grants[j].at > 0
       /\ ~grants[j].granted
       /\ \A k \in (j - 2)..(j - 1) : grants[k].granted /\ grants[k].at = grants[j].at

\* C8: for every provider and every interval of one window length, the requests
\* recorded by the provider's RateLimiter in the interval are at most its
\* capacity, with generate calls interleaved in every way.
C8AdmissionsWithinCapacity ==
  \A p \in Providers, t \in 0..MaxTime :
    Cardinality({i \in DOMAIN admitted[p] :
                   t <= admitted[p][i] /\ admitted[p][i] < t + WindowMs})
      <= RateLimitRequests(p)

\* Two calls are pending at once: one was admitted by huggingface's limiter and
\* filled it, the other was refused by it.
C8Witness ==
  \E c \in CallIds, d \in CallIds :
    /\ c # d
    /\ Pending(c)
    /\ Pending(d)
    /\ \E i \in EventsOf(calls[c].trace, "invoke") : calls[c].trace[i].p = "huggingface"
    /\ \E i \in EventsOf(calls[d].trace, "skipRate") : calls[d].trace[i].p = "huggingface"
    /\ WindowLoad("huggingface", now) = RateLimitRequests("huggingface")

\* C9: getFromCache of a key returns what the last setCache of the key stored
\* while less than the expiry has passed since and no eviction took the entry;
\* once the expiry has passed it returns a miss and the entry is no longer stored.
C9RoundTrip ==
  lastOp.op = "get" =>
    LET w == written[lastOp.key]
    IN /\ (w.live /\ lastOp.at - w.at < CacheExpiry) =>
            (lastOp.hit /\ lastOp.data = w.data)
       /\ (lastOp.at - w.at >= CacheExpiry) =>
            /\ ~lastOp.hit
            /\ ~CacheHas(cache, lastOp.key)
            /\ lastOp.wasStored => Len(cache) = lastOp.sizeBefore - 1

\* A getFromCache found an entry stored by setCache whose expiry had passed,
\* returned a miss and removed it.
C9Witness ==
  /\ lastOp.op = "get"
  /\ lastOp.wasStored
  /\ written[lastOp.key].live
  /\ ~lastOp.hit
  /\ Len(cache) = lastOp.sizeBefore - 1

\* C10: the cache never holds more entries than its limit nor two entries of one
\* key; a setCache of a new key into a full cache evicts exactly the key inserted
\* earliest, whether or not that entry was read or overwritten since, a setCache
\* evicts nothing otherwise, and the entry just stored is there.
C10BoundedFifo ==
  /\ Len(cache) <= CacheLimit
  /\ \A i \in 1..Len(cache), j \in 1..Len(cache) : cache[i].key = cache[j].key => i = j
  /\ lastOp.op = "put" =>
       /\ CacheHas(cache, lastOp.key)
       /\ CacheEntry(cache, lastOp.key).data = lastOp.data
       /\ lastOp.evicted =
            IF ~lastOp.wasStored /\ lastOp.sizeBefore = CacheLimit
            THEN {lastOp.oldest} ELSE {}

\* A setCache of a new key evicted an entry that had been read or overwritten
\* after its insertion.
C10Witness ==
  /\ lastOp.op = "put"
  /\ lastOp.evicted # {}
  /\ lastOp.evictedTouched
  /\ Len(cache) = CacheLimit

\* -------------------------------------------------- properties, retry loops
\* The loop has ended, by a return or a throw.
RetryEnded == retry.pc \in {"returned", "thrown"}

\* The attempts a loop makes at most: maxRetries for executeWithRetry and
\* retryStep, one first request and maxRetries repetitions for makeRequest.
AttemptsAllowed ==
  IF retry.loop = "client" THEN retry.maxRetries + 1 ELSE retry.maxRetries

\* C11: executeWithRetry with maxRetries = 3 never makes more than 3 attempts; it
\* has waited once before the 2nd and twice before the 3rd; when every attempt
\* failed it has made exactly 3 attempts, waited base*2^0 and then base*2^1 and
\* not after the 3rd, and throws the error of the 3rd attempt.
C11ThreeAttempts ==
  (retry.loop = "provider" /\ retry.maxRetries = 3) =>
    /\ retry.attempts <= 3
    /\ retry.pc = "attempt" => Len(retry.waits) = retry.attempts - 1
    /\ retry.pc = "thrown" =>
         /\ retry.attempts = 3
         /\ Len(retry.failures) = 3
         /\ retry.waits = <<BackoffBase * (2 ^ 0), BackoffBase * (2 ^ 1)>>
         /\ retry.thrown = retry.failures[3]

\* Three attempts failed, the first and the last with different errors, and
\* the loop has thrown.
C11Witness ==
  /\ retry.loop = "provider"
  /\ retry.maxRetries = 3
  /\ retry.pc = "thrown"
  /\ retry.attempts = 3
  /\ retry.failures[1] # retry.failures[3]

\* C12: once the caller has cancelled a provider-scoped or step-scoped retry
\* loop that was waiting or had an attempt in flight, the loop starts no further
\* attempt and ends with a Cancelled error.
C12CancelInterrupts ==
  (retry.loop \in {"provider", "step"} /\ retry.cancelled) =>
    /\ retry.sinceCancel = 0
    /\ RetryEnded => (retry.pc = "thrown" /\ retry.thrown = "Cancelled")

\* C13: on the provider call path (executeWithRetry, makeRequest) an attempt
\* that failed with 401, 403 or another 4xx is the last one and the loop has
\* thrown; a loop that threw after a 429 or a 5xx had no attempt left.
C13StatusMapping ==
  retry.loop \in {"provider", "client"} =>
    /\ \A k \in 1..Len(retry.failures) :
         retry.failures[k] \in {"401", "403", "404"} =>
           (k = Len(retry.failures) /\ retry.pc = "thrown")
    /\ (retry.pc = "thrown" /\ retry.failures[Len(retry.failures)] \in {"429", "500"}) =>
         retry.attempts = AttemptsAllowed

\* ------------------------------------------- properties, workflow executor
\* The execution context exists and its handler has not finished.
InFlight(e) == executions[e].pc \notin {"idle", "thrown"}

\* The handler of an execution that was created has finished.
Terminated(e) == executions[e].pc = "thrown" /\ executions[e].run # "none"

\* The step whose first invocation throws in this transition, or -1.
ErrsNow(e) ==
  LET t == executions'[e].trace
  IN IF Len(t) = Len(executions[e].trace) + 1 /\ t[Len(t)].kind = "error"
     THEN t[Len(t)].step ELSE -1

\* Steps of one mode whose first invocation threw.
Errored(e, modes) ==
  {executions[e].trace[p].step : p \in {q \in 1..Len(executions[e].trace) :
     /\ executions[e].trace[q].kind = "error"
     /\ StepAt(executions[e].trace[q].step).errorHandling \in modes}}

\* C14: when a step errors in mode 'fail', executeWorkflow throws and nothing of
\* the workflow is executed afterwards; when it errors in the default mode, the
\* error is the new last entry of the results and of the execution's errors and
\* the executor is at the next step; executeWorkflow returns only if no step in
\* mode 'fail' errored.
C14ErrorModes ==
  [][\A e \in ExecIds :
       LET x == executions[e]
           y == executions'[e]
           k == ErrsNow(e)
       IN /\ (k >= 0 /\ StepAt(k).errorHandling = "fail") =>
               (y.pc = "failed" /\ y.run = "threw")
          /\ x.run = "threw" => y.trace = x.trace
          /\ (k >= 0 /\ StepAt(k).errorHandling = "none") =>
               /\ y.results = Append(x.results, Entry(k, "error"))
               /\ IsArray(y.errors)
               /\ Len(y.errors.items) > 0
               /\ y.errors.items[Len(y.errors.items)] = k
               /\ y.pc = "loop"
               /\ y.i = k + 1
          /\ y.run = "returned" => Errored(e, {"fail"})' = {}]_vars

\* C15: executeWorkflow throws only at a step in mode 'fail': a step error in
\* another mode, a 'retry'-mode step whose re-invocations all fail included,
\* never ends the execution as failed nor keeps the remaining steps from running.
C15OnlyFailAborts ==
  \A e \in ExecIds :
    executions[e].run = "threw" => StepAt(executions[e].i).errorHandling = "fail"

\* Some declared condition of the step is false.
AnyConditionFalse(step) ==
  step.declared /\ \E j \in 1..Len(step.conditions) : ~step.conditions[j]

\* C16: a step of the outer sequence with a declared condition that is false is
\* never invoked, by executeStep, a loop pass or a retry; once the executor is
\* past it, its entry in the results is the skipped entry; the executor does not
\* rest in it.
C16FalseConditionSkips ==
  \A e \in ExecIds :
    LET x == executions[e]
    IN \A k \in 0..(Len(workflow) - 1) :
         AnyConditionFalse(StepAt(k)) =>
           /\ \A p \in 1..Len(x.trace) : x.trace[p].step = k => x.trace[p].kind = "skip"
           /\ x.i > k => x.results[k + 1] = Entry(k, "skipped")
           /\ x.i = k => x.pc \in {"idle", "loop", "thrown"}

\* A step whose conditions are true and false was skipped and the step after
\* it was invoked.
C16Witness ==
  \E e \in ExecIds :
    LET x == executions[e]
    IN /\ Len(workflow) = 2
       /\ StepAt(0).conditions = <<TRUE, FALSE>>
       /\ x.results # <<>>
       /\ x.results[1] = Entry(0, "skipped")
       /\ x.pc = "step"
       /\ x.i = 1

C18ResultReturned ==
  \A e \in ExecIds :
    executions[e].run = "returned" => executions[e].pc \notin {"failed", "thrown"}

\* C19: when an execution has terminated its status is Succeeded or Failed,
\* Failed exactly when executeWorkflow threw.
C19TerminalStatus ==
  \A e \in ExecIds :
    Terminated(e) =>
      /\ executions[e].status \in {"succeeded", "failed"}
      /\ executions[e].status = "failed" <=> executions[e].run = "threw"

\* The steps of an execution's history are in declared order.
InDeclaredOrder(e) ==
  \A p \in 1..Len(executions[e].trace), q \in 1..Len(executions[e].trace) :
    p <= q => executions[e].trace[p].step <= executions[e].trace[q].step

\* C20: the executor handles the steps in declared order, and the current step
\* index of an execution is a number that never decreases, whatever loops,
\* conditions, retries and skips do.
C20IndexMonotone ==
  [][\A e \in ExecIds :
       /\ InDeclaredOrder(e)'
       /\ executions[e].pc # "idle" =>
            /\ executions'[e].currentStep.kind = "number"
            /\ executions'[e].currentStep.n >= executions[e].currentStep.n]_vars

\* C21: when the workflow declares a step delay, the executor has waited it
\* after every step it has left without aborting, a skipped step included,
\* before the next step starts.
C21DelayAfterEveryStep ==
  \A e \in ExecIds :
    stepDelay # 0 =>
      \A k \in 0..(executions[e].i - 1) :
        \E p \in 1..Len(executions[e].delays) : executions[e].delays[p] = k

\* ------------------------------------------------- properties, conditions
\* The operand is a '$' path that reads a property of null in the context.
ThroughNull(operand, context) ==
  /\ operand.kind = "string"
  /\ StartsWithDollar(operand.s)
  /\ \E b \in context : b[1] = <<Split(operand.s)[1]>> /\ b[2].kind = "null"

\* The operand is a '$' path one of whose segments is missing in the context.
MissingSegment(operand, context) ==
  /\ operand.kind = "string"
  /\ StartsWithDollar(operand.s)
  /\ \E k \in 1..Len(Split(operand.s)) :
       /\ \A b \in context : b[1] # SubSeq(Split(operand.s), 1, k)
       /\ \A j \in 1..(k - 1) :
            \E b \in context : b[1] = SubSeq(Split(operand.s), 1, j) /\ b[2].kind = "object"

\* C22: evaluateCondition returns a boolean and never throws, and it returns
\* false for a null or undefined condition, for an invalid regular expression
\* and for a path that runs through a null value.
C22FailsClosed ==
  evaluation.pc = "done" =>
    LET c == evaluation.condition
        x == evaluation.context
    IN /\ ~evaluation.result.threw
       /\ evaluation.result.value \in BOOLEAN
       /\ c.shape \in {"null", "undefined"} => ~evaluation.result.value
       /\ (c.shape = "object" /\ (ThroughNull(c.left, x) \/ ThroughNull(c.right, x))) =>
            ~evaluation.result.value
       /\ (c.shape = "object" /\ c.operator = "matches" /\ c.right = JsString("(")) =>
            ~evaluation.result.value

C22Witness ==
  /\ evaluation.pc = "done"
  /\ evaluation.condition.shape = "object"
  /\ evaluation.condition.operator = "!="
  /\ ThroughNull(evaluation.condition.left, evaluation.context)
  /\ ~evaluation.result.value

\* C23: a condition with an operand whose '$' path has a missing segment
\* evaluates to false, whatever the operator and the other operand.
C23MissingPathIsFalse ==
  (/\ evaluation.pc = "done"
   /\ evaluation.condition.shape = "object"
   /\ \/ MissingSegment(evaluation.condition.left, evaluation.context)
      \/ MissingSegment(evaluation.condition.right, evaluation.context))
  => ~evaluation.result.value

\* ------------------------------------------------- properties, loop steps
\* The sub-results of a loop step that ran to its end: one per item and inner
\* step, by item and then by inner step.
LoopResults(step) ==
  [p \in 1..(Len(step.items) * step.steps) |->
     <<step.items[((p - 1) \div step.steps) + 1], ((p - 1) % step.steps) + 1>>]

IsPrefix(s, t) == Len(s) <= Len(t) /\ SubSeq(t, 1, Len(s)) = s

\* C24: while a loop step runs, its sub-results grow by item and then by inner
\* step; when the step ends with a result, they are the n*m sub-results in that
\* order, the step has taken one entry of the outer results, and only then is
\* the executor at the following step.
C24LoopOrder ==
  [][\A e \in ExecIds :
       LET x == executions[e]
           y == executions'[e]
       IN (x.pc = "step" /\ StepAt(x.i).type = "loop") =>
            /\ IsPrefix(y.sub, LoopResults(StepAt(x.i)))
            /\ y.i # x.i =>
                 /\ y.i = x.i + 1
                 /\ y.pc = "loop"
                 /\ Len(y.results) = Len(x.results) + 1
                 /\ y.results[Len(y.results)].kind \in {"result", "retried"} =>
                      /\ x.sub = LoopResults(StepAt(x.i))
                      /\ Len(x.sub) = Len(StepAt(x.i).items) * StepAt(x.i).steps]_vars

C24Witness ==
  \E e \in ExecIds :
    /\ executions[e].pc = "loop"
    /\ executions[e].i = 1
    /\ executions[e].results[1].kind = "result"
    /\ workflow[1].items = <<1, 0>>
    /\ executions[e].sub = <<<<1, 1>>, <<1, 2>>, <<0, 1>>, <<0, 2>>>>

DistinctStepIds(steps) ==
  /\ \A k \in 1..Len(steps) : steps[k].id \notin {"absent", "null"}
  /\ \A j, k \in 1..Len(steps) : j # k => steps[j].id # steps[k].id

\* C27: a workflow generated from a template or from a provider's answer has
\* defined and pairwise distinct step ids.
C27DistinctStepIds ==
  generation.source \in {"template", "provider"} => DistinctStepIds(generation.steps)

\* ------------------------------------------- properties, message listener
\* The requests that have been answered, one entry per call of sendResponse.
Answered == [k \in 1..Len(service.responses) |-> service.responses[k][1]]

\* Nothing is under way: no initialize() and no handleMessage is pending.
Quiescent == service.inits = 0 /\ service.handling = {}

\* C26: no request is answered twice, a request of unknown type is answered
\* with an error, handleMessage is called for the requests in arrival order,
\* and once nothing is under way every request received has been answered,
\* also after an initialisation that failed.
C26AnsweredOnce ==
  /\ \A j, k \in 1..Len(Answered) : j # k => Answered[j] # Answered[k]
  /\ \A k \in 1..Len(service.responses) :
       service.types[service.responses[k][1]] = "UNKNOWN" =>
         service.responses[k][2] = "error"
  /\ \A j, k \in 1..Len(service.dispatched) :
       j < k => service.dispatched[j] < service.dispatched[k]
  /\ Quiescent =>
       \A id \in 1..Len(service.types) : \E k \in 1..Len(Answered) : Answered[k] = id

\* ---------------------------------------------- properties, generateWithGroq
\* C28: a generateWithGroq call that finds no API key for the provider ends by
\* throwing an error whose message names the API key; it does not return.
C28MissingKeyThrows ==
  (\E k \in 1..Len(request.trace) : request.trace[k].kind = "noKey") =>
    /\ request.result.kind = "threw"
    /\ request.result.error.msg = "No API key configured for provider"

\* ------------------------------------------------ properties, termination
\* Attempts sent to the provider a call is at, counted from its history: the
\* invocation and the retries since.
AttemptsSent(c) ==
  LET t == calls[c].trace
      last == CHOOSE k \in 0..Len(t) :
                /\ k > 0 => t[k].kind = "invoke"
                /\ \A j \in (k + 1)..Len(t) : t[j].kind # "invoke"
  IN IF last = 0 THEN 0
     ELSE 1 + Cardinality({j \in (last + 1)..Len(t) : t[j].kind = "retry"})

\* C29: a provider is sent at most maxRetries attempts per invocation, and
\* every generateWorkflow call that has started returns or throws, each attempt
\* ending at the latest when its timeout fires.
C29Terminates ==
  /\ [](\A c \in CallIds : AttemptsSent(c) <= MaxRetries)
  /\ \A c \in CallIds : Pending(c) ~> ~Pending(c)

C29Witness ==
  \E c \in CallIds :
    /\ calls[c].pc = "done"
    /\ calls[c].result.kind = "AIEngineError"
    /\ Cardinality({k \in 1..Len(calls[c].trace) : calls[c].trace[k].kind = "retry"})
         >= 2 * (MaxRetries - 1)

\* ------------------------------------------------- properties, step retries
\* The re-invocations of step k that retryStep has made.
Reinvocations(e, k) ==
  Cardinality({p \in 1..Len(executions[e].trace) : executions[e].trace[p] = Did(k, "retry")})

\* C30: a step is re-invoked only in mode 'retry' and after its invocation
\* threw, at most 3 times; retryStep waits 1000 * 2^i ms before re-invocation i;
\* the first re-invocation that returns ends the retries and its result is
\* recorded with the retried marker; retryStep gives up only after 3
\* re-invocations have thrown.
C30RetryBudget ==
  \A e \in ExecIds :
    LET x == executions[e]
        t == x.trace
    IN /\ \A k \in 0..(Len(workflow) - 1) :
            /\ Reinvocations(e, k) <= 3
            /\ Reinvocations(e, k) > 0 =>
                 /\ StepAt(k).errorHandling = "retry"
                 /\ \E p \in 1..Len(t) : t[p] = Did(k, "error")
       /\ \A p \in 1..Len(t) :
            t[p].kind = "retried" =>
              /\ \A q \in (p + 1)..Len(t) : t[q].step # t[p].step
              /\ \E r \in 1..Len(x.results) : x.results[r] = Entry(t[p].step, "retried")
       /\ x.retrying =>
            /\ x.waits = [j \in 1..Len(x.waits) |-> 1000 * (2 ^ (j - 1))]
            /\ Len(x.waits) = Reinvocations(e, x.i) + (IF x.pc = "retryWait" THEN 1 ELSE 0)
       /\ (x.pc = "failed" /\ x.run = "threw" /\ x.error = "StepError"
             /\ StepAt(x.i).errorHandling = "retry") =>
            Reinvocations(e, x.i) = 3

C30Witness ==
  \E e \in ExecIds :
    /\ executions[e].waits = <<1000, 2000, 4000>>
    /\ \E r \in 1..Len(executions[e].results) : executions[e].results[r].kind = "retried"

\* --------------------------------------- properties, storage calls side by side
\* C39: whatever getSecure and setSecure calls of one key run side by side, an
\* entry leaves the storage or the memory cache only when it has expired: the
\* removal that a read of an expired entry starts never takes out an entry
\* written since.
C39NewValueSurvives ==
  [][\A k \in ClientKeySet :
       /\ (storage[k] # NoEntry /\ storage'[k] = NoEntry) => now > storage[k].expiresAt
       /\ (memoryCache[k] # NoEntry /\ memoryCache'[k] = NoEntry) =>
            ~(now < memoryCache[k].expiresAt)]_vars

\* ----------------------------------------- properties, initialisation
\* C38: once serviceState.initialized is true it stays true and no message is
\* queued any more, whatever initialize() calls of the script load, of install
\* and startup events and of early messages are still under way.
C38StaysInitialized ==
  [][service.initialized => (service'.initialized /\ service'.messageQueue = <<>>)]_vars

\* ------------------------------------- properties, unsupported operators
\* The operators evaluateCondition's switch has cases for.
SupportedOperators == {"==", "!=", ">", "<", ">=", "<=", "contains", "matches"}

\* C33: a condition whose operator is none of ==, !=, >, <, >=, <=, contains,
\* matches evaluates to false.
C33UnsupportedOperatorFalse ==
  (/\ evaluation.pc = "done"
   /\ evaluation.condition.shape = "object"
   /\ evaluation.condition.operator \notin SupportedOperators)
  => ~evaluation.result.value

\* ------------------------------------- properties, getRateLimiterStatus
\* C40: getRateLimiterStatus leaves every provider's limiter with the tokens it
\* had: the tokens a generate call finds at that time are the same before and
\* after the query.
C40StatusIsPureQuery ==
  [][GetRateLimiterStatus =>
       \A p \in Providers :
         RefillTokens(buckets'[p], now).tokens = RefillTokens(buckets[p], now).tokens]_vars

\* ------------------------------------- properties, the execution's bookkeeping
\* The steps the results of an execution report as errored, in their order.
ErrorEntries(e) ==
  LET errored == SelectSeq(executions[e].results, LAMBDA r : r.kind = "error")
  IN [k \in 1..Len(errored) |-> errored[k].stepId]

\* C37: storeAs and the loop's item variable never overwrite the execution's
\* bookkeeping: execution.errors stays the list of the steps that errored and
\* were continued, and execution.currentStep is the index of the step at which
\* the executor is.
C37BookkeepingKept ==
  \A e \in ExecIds :
    LET x == executions[e]
    IN x.run # "none" =>
         /\ IsArray(x.errors)
         /\ x.errors.items = ErrorEntries(e)
         /\ x.pc \in {"step", "retryWait"} => x.currentStep = Num(x.i)

\* ------------------------------------- properties, attempts in flight
\* The operations of the loop that are running: the attempt awaited and those a
\* timeout has left behind.
OperationsRunning == retry.abandoned + (IF retry.pc = "attempt" THEN 1 ELSE 0)

\* C36: within one executeWithRetry call at most one attempt of the operation is
\* running at any time, and none is running once executeWithRetry has thrown.
C36OneAttemptInFlight ==
  retry.loop = "provider" =>
    /\ OperationsRunning <= 1
    /\ retry.pc = "thrown" => OperationsRunning = 0

\* ------------------------------------- properties, calls covered by the limiter
\* C35: for each provider, the calls sent to it within one window length, retry
\* attempts included, never exceed the limiter's configured capacity.
C35SentWithinCapacity ==
  \A p \in Providers : Len(Cleanup(sent[p], now)) <= RateLimitRequests(p)

\* ------------------------------------- properties, conditions of inner steps
\* C34: an inner step of a loop whose declared conditions evaluate false is not
\* executed and contributes no sub-result.
C34InnerConditions ==
  \A e \in ExecIds :
    LET x == executions[e]
    IN (x.pc = "step" /\ StepAt(x.i).type = "loop"
        /\ StepAt(x.i).innerDeclared /\ ~EvaluateConditions(StepAt(x.i).innerConditions))
       => x.sub = <<>>

\* ------------------------------------- properties, the workflow's policy
\* C31: when a step that declares no error-handling mode errors, the policy the
\* workflow declares is applied to it: the execution fails under 'fail', the
\* step is retried under a retrying policy, and the error is recorded and the
\* executor continues only when the workflow declares no policy either.
C31WorkflowPolicyApplies ==
  [][\A e \in ExecIds :
       LET y == executions'[e]
           k == ErrsNow(e)
       IN (k >= 0 /\ StepAt(k).errorHandling = "none") =>
            /\ errorHandling = "fail" => y.pc = "failed"
            /\ errorHandling \in {"retry", "retry_then_fail"} => y.pc = "retryWait"
            /\ y.pc = "loop" => errorHandling = "none"]_vars

\* ------------------------------------- properties, the frame of a cache hit
\* An AIEngine call starts in this step and its key has an unexpired entry.
EngineCallHits(c) ==
  /\ ~Pending(c)
  /\ calls'[c] # calls[c]
  /\ CacheFresh(cache, calls'[c].key, now)

\* An APIClient call starts in this step and its lookup finds an unexpired entry.
ClientCallHits ==
  /\ request.pc \in {"idle", "done"}
  /\ request'.count = request.count + 1
  /\ request'.result.kind = "cached"

====
